---- MODULE Spec2Model ----
(***************************************************************************)
(* fastify-file-router: route files are mapped to HTTP routes.  The model  *)
(* covers                                                                  *)
(*   - the schema normalizer defineRouteZod (defineRouteZod.ts),           *)
(*   - the per-file part of registerRoutes that installs the validation    *)
(*     dispatcher (preValidation hook) and the response validator          *)
(*     (preSerialization hook), and the life of a request on that route,   *)
(*   - parseFileName / toHttpMethod / convertRoutePath for one file name,  *)
(*   - the parameter consistency check validateParamsSchema.               *)
(***************************************************************************)
EXTENDS Integers, Sequences, FiniteSets, TLC

VARIABLES
  \* ---- one route: module evaluation, registration, requests ----
  stage,                 \* "module" -> "register" -> "serve"
  moduleInput,           \* what the route file passes to defineRouteZod / exports as schema
  zodResponseValidation, \* plugin option
  route,                 \* the schema bundle exported by the module
  routeOptions,          \* what registerRoutes hands to fastify.route
  pc,                    \* position of the request in the host's life cycle
  arrived,               \* request data as it arrived
  req,                   \* request object (params, query, body, headers)
  validationLog,         \* validator invocations of the current request
  dispatched,            \* reply issued by the preValidation hook, if any
  handlerRan,            \* the route handler was invoked for the current request
  handlerSaw,            \* request data seen by the handler
  produced,              \* status and payload entering preSerialization
  reply,                 \* status and payload of the reply
  served,                \* requests completed
  \* ---- one route file name ----
  fileName,              \* the directory entry's name, a sequence of atoms
  convention,            \* 'remix' | 'next'
  fileStep,              \* "listed" -> "importing" -> "done"
  fileOutcome,           \* what the per-entry callback of registerRoutes did
  \* ---- parameter consistency check ----
  checkInput,            \* url pattern and params schema of one route
  checkStep,             \* "registering" -> "checked" -> "registered" | "aborted"
  checkOutcome,
  \* ---- calls of convertRoutePath on one segment list ----
  segmentList,           \* the caller's array of route segments
  pathConvention,        \* 'remix' | 'next'
  results,               \* one entry per call: the array passed and what came back
  lastIndex,             \* lastIndex of the RegExp objects remixSegment and nextSegment
  \* ---- the walk down one chain of directories to one file ----
  walkInput,             \* directory names, file name, module exports, mount, convention
  walkDepth,             \* directories entered so far
  walkStep,              \* "entry" -> "importing" -> "done"
  walkOutcome,           \* what became of the file: kind, method and url
  walkLog,               \* what was done with the file: parsed, imported, registered
  \* ---- route-table construction over the configured roots ----
  directories,           \* the configured roots and their subdirectories, with their listings
  dirStep,               \* per directory: "pending" -> "reading" -> "scanned" | "skipped"
  taskStep,              \* per file entry: position of its callback in registerRoutes
  loaded,                \* file entries whose module import was started
  routeTable,            \* routes the host has accepted
  numberOfValidRouteDirs,
  startup,               \* "running" -> "ready" | "failed"
  reportedTable,         \* the routes registered when the failure was reported
  \* ---- requests in flight on one route ----
  inflight,              \* per request: position, data, handler's reply, reply
  validateErrors         \* the errors property of the validators Ajv caches, per part

routeVars == <<stage, moduleInput, zodResponseValidation, route, routeOptions, pc, arrived, req,
               validationLog, dispatched, handlerRan, handlerSaw, produced, reply, served>>
fileVars == <<fileName, convention, fileStep, fileOutcome>>
checkVars == <<checkInput, checkStep, checkOutcome>>
pathVars == <<segmentList, pathConvention, results, lastIndex>>
walkVars == <<walkInput, walkDepth, walkStep, walkOutcome, walkLog>>
startupVars == <<directories, dirStep, taskStep, loaded, routeTable, numberOfValidRouteDirs,
                 startup, reportedTable>>
serveVars == <<inflight, validateErrors>>
vars == <<routeVars, fileVars, checkVars, pathVars, walkVars, startupVars, serveVars>>

----------------------------------------------------------------------------
(* Bounds *)

\* requests served on the route in one run
MaxRequests == 1

----------------------------------------------------------------------------
(* Schema descriptions and the schema normalizer *)

\* mutant: the body branch placed before the querystring branch
Parts_BodyFirst == <<"params", "body", "querystring", "headers">>

\* request parts in the order the preValidation hook visits them
Parts == <<"params", "querystring", "body", "headers">>
PartSet == {"params", "querystring", "body", "headers"}

\* response status codes a route may declare a schema for
StatusCodes == {200, 400}

\* A schema description.  kind: "absent" (undefined), "zod" (an object with
\* _def and safeParse), "json" (a JSON Schema object), "false" (the JSON
\* Schema `false`, the only falsy JSONSchema value).  shape: what the
\* description accepts.  origin: written by the author or produced by
\* zodToJsonSchema.
Desc(kind, shape, origin) == [kind |-> kind, shape |-> shape, origin |-> origin]
Absent == Desc("absent", "none", "none")

Truthy(d) == d.kind \notin {"absent", "false"}

isZodSchema(d) == d.kind = "zod"

zodToJsonSchema(d) == Desc("json", d.shape, "converted")

\* number of keys of a partial map with an optional `response` key
KeyCount(parts, respPresent) == Cardinality(DOMAIN parts) + (IF respPresent THEN 1 ELSE 0)

NoBundle ==
  [ defined |-> FALSE,
    parts |-> << >>, respPresent |-> FALSE, response |-> << >>, extra |-> "none",
    hasZodSchemasKey |-> FALSE, zodParts |-> << >>, zodRespPresent |-> FALSE, zodResponse |-> << >>,
    hasSchemaTypesKey |-> FALSE, typeParts |-> << >>, typeRespPresent |-> FALSE, typeResponse |-> << >> ]

\* mutant: the original description is kept for every recorded part
defineRouteZod_RetainsAll(in) ==
  LET present == {p \in PartSet : Truthy(in.parts[p])}
      codes == IF in.respPresent THEN DOMAIN in.response ELSE {}
  IN [ defined |-> TRUE,
       parts |-> [p \in present |->
                    IF isZodSchema(in.parts[p]) THEN zodToJsonSchema(in.parts[p]) ELSE in.parts[p]],
       respPresent |-> in.respPresent,
       response |-> [c \in codes |->
                    IF isZodSchema(in.response[c]) THEN zodToJsonSchema(in.response[c])
                    ELSE in.response[c]],
       extra |-> in.extra,
       hasZodSchemasKey |-> KeyCount([p \in present |-> in.parts[p]], codes # {}) > 0,
       zodParts |-> [p \in present |-> in.parts[p]],
       zodRespPresent |-> codes # {},
       zodResponse |-> [c \in codes |-> in.response[c]],
       hasSchemaTypesKey |-> TRUE,
       typeParts |-> [p \in present |-> IF isZodSchema(in.parts[p]) THEN "zod" ELSE "json"],
       typeRespPresent |-> in.respPresent,
       typeResponse |-> [c \in codes |-> IF isZodSchema(in.response[c]) THEN "zod" ELSE "json"] ]

defineRouteZod(in) ==
  LET present == {p \in PartSet : Truthy(in.parts[p])}
      zodP == {p \in present : isZodSchema(in.parts[p])}
      codes == IF in.respPresent THEN DOMAIN in.response ELSE {}
      zodC == {c \in codes : isZodSchema(in.response[c])}
  IN [ defined |-> TRUE,
       parts |-> [p \in present |->
                    IF isZodSchema(in.parts[p]) THEN zodToJsonSchema(in.parts[p]) ELSE in.parts[p]],
       respPresent |-> in.respPresent,
       response |-> [c \in codes |->
                    IF isZodSchema(in.response[c]) THEN zodToJsonSchema(in.response[c])
                    ELSE in.response[c]],
       extra |-> in.extra,
       hasZodSchemasKey |-> KeyCount([p \in zodP |-> in.parts[p]], zodC # {}) > 0,
       zodParts |-> [p \in zodP |-> in.parts[p]],
       zodRespPresent |-> zodC # {},
       zodResponse |-> [c \in zodC |-> in.response[c]],
       hasSchemaTypesKey |-> TRUE,
       typeParts |-> [p \in present |-> IF isZodSchema(in.parts[p]) THEN "zod" ELSE "json"],
       typeRespPresent |-> in.respPresent,
       typeResponse |-> [c \in codes |-> IF isZodSchema(in.response[c]) THEN "zod" ELSE "json"] ]

\* defineRoute returns its argument: a plain FastifySchema without metadata
defineRoute(in) ==
  [ defined |-> TRUE,
    parts |-> [p \in {q \in PartSet : in.parts[q].kind # "absent"} |-> in.parts[p]],
    respPresent |-> in.respPresent,
    response |-> IF in.respPresent THEN in.response ELSE << >>,
    extra |-> in.extra,
    hasZodSchemasKey |-> FALSE, zodParts |-> << >>, zodRespPresent |-> FALSE, zodResponse |-> << >>,
    hasSchemaTypesKey |-> FALSE, typeParts |-> << >>, typeRespPresent |-> FALSE,
    typeResponse |-> << >> ]

----------------------------------------------------------------------------
(* registerRoutes: what the per-file callback derives from the bundle *)

hasZodSchemas(r) == r.defined /\ r.hasZodSchemasKey /\ KeyCount(r.zodParts, r.zodRespPresent) > 0

hasSchemaTypes(r) == r.defined /\ r.hasSchemaTypesKey /\ KeyCount(r.typeParts, r.typeRespPresent) > 0

\* zodSchemas.response, or the empty map when there is none
zodResponseSchemas(r) ==
  IF r.defined /\ r.hasZodSchemasKey /\ r.zodRespPresent THEN r.zodResponse ELSE << >>

\* mutant: the zodResponseValidation option is not consulted
hasZodResponseSchemas_IgnoresOption(r, enabled) ==
  r.defined /\ r.hasZodSchemasKey /\ r.zodRespPresent /\ DOMAIN r.zodResponse # {}

hasZodResponseSchemas(r, enabled) ==
  enabled /\ r.defined /\ r.hasZodSchemasKey /\ r.zodRespPresent /\ DOMAIN r.zodResponse # {}

\* mutant: every route with a schema gets the custom validation
needsCustomValidation_AnySchema(r) == r.defined

needsCustomValidation(r) == hasZodSchemas(r) \/ hasSchemaTypes(r)

\* the clean schema handed to the host: metadata keys are left out
fastifySchema(r) ==
  [ parts |-> IF r.defined THEN r.parts ELSE << >>,
    respPresent |-> r.defined /\ r.respPresent,
    response |-> IF r.defined /\ r.respPresent THEN r.response ELSE << >>,
    extra |-> IF r.defined THEN r.extra ELSE "none" ]

NoRouteOptions ==
  [ registered |-> FALSE, schema |-> fastifySchema(NoBundle),
    validatorCompiler |-> "default", serializerCompiler |-> "default",
    preValidation |-> FALSE, preSerialization |-> FALSE, ajvInstance |-> FALSE ]

\* routeOptions as passed to fastify.route
buildRouteOptions(r, enabled) ==
  [ registered |-> TRUE,
    schema |-> fastifySchema(r),
    validatorCompiler |-> IF needsCustomValidation(r) THEN "noop" ELSE "default",
    serializerCompiler |->
      IF needsCustomValidation(r) /\ hasZodResponseSchemas(r, enabled) THEN "stringify" ELSE "default",
    preValidation |-> needsCustomValidation(r),
    preSerialization |-> hasZodResponseSchemas(r, enabled) /\ DOMAIN zodResponseSchemas(r) # {},
    \* import('ajv') resolves: ajv is installed with the plugin
    ajvInstance |-> needsCustomValidation(r) ]

----------------------------------------------------------------------------
(* Request data and the validators *)

\* A value: t is its JavaScript type ("obj" for an opaque object), v its
\* content, by who produced it ("raw" as it arrived, "zod" a safeParse
\* result, "ajv" mutated in place by the structural validator, "host" by the
\* host's own validator).
Val(t, v, by) == [t |-> t, v |-> v, by |-> by]

\* values of the single query key as they arrive: always strings
QueryStrings == {"5", "007", "true", "abc"}

\* Number(s) for the strings above, as the decimal text of the result
NumberOf(s) == CASE s = "5" -> "5" [] s = "007" -> "7" [] OTHER -> "NaN"

\* the coercion loop of the querystring branch (applied to every string value)
coerceQueryValue(val) ==
  IF val.t = "str"
  THEN IF val.v = "true" THEN Val("bool", "true", val.by)
       ELSE IF val.v = "false" THEN Val("bool", "false", val.by)
       ELSE IF NumberOf(val.v) # "NaN" THEN Val("num", NumberOf(val.v), val.by)
       ELSE val
  ELSE val

\* Ajv with coerceTypes and useDefaults: data is checked against the
\* description and coerced in place.  Opaque objects are valid when "ok".
ajvValidate(d, val, who) ==
  CASE d.shape = "obj" -> [ok |-> val.v = "ok", data |-> Val(val.t, val.v, who)]
    [] d.shape = "number" ->
         CASE val.t = "num" -> [ok |-> TRUE, data |-> Val("num", val.v, who)]
           [] val.t = "bool" ->
                [ok |-> TRUE, data |-> Val("num", IF val.v = "true" THEN "1" ELSE "0", who)]
           [] val.t = "str" /\ NumberOf(val.v) = val.v ->
                [ok |-> TRUE, data |-> Val("num", val.v, who)]
           [] OTHER -> [ok |-> FALSE, data |-> Val(val.t, val.v, who)]
    [] d.shape = "string" ->
         [ok |-> TRUE, data |-> Val("str", val.v, who)]
    [] OTHER -> [ok |-> FALSE, data |-> val]

\* zodSchema.safeParse: z.object for opaque parts, z.coerce.number() for the
\* query key; data is a new object
safeParse(d, val) ==
  CASE d.shape = "obj" -> [ok |-> val.v = "ok", data |-> Val(val.t, val.v, "zod")]
    [] d.shape = "number" ->
         IF NumberOf(val.v) # "NaN"
         THEN [ok |-> TRUE, data |-> Val("num", NumberOf(val.v), "zod")]
         ELSE [ok |-> FALSE, data |-> val]
    [] OTHER -> [ok |-> FALSE, data |-> val]

\* Reply payloads.  kind: "data" a resource object, "error" an object
\* { error: string }, "validationFailed" the response validator's 500 body,
\* "hostError" the host's own error body.  part: the component an error
\* names.  fmt: the function that built the message.  parsed: "zod" when the
\* payload is the output of a response schema.
Payload(kind, part, fmt, parsed) == [kind |-> kind, part |-> part, fmt |-> fmt, parsed |-> parsed]
NoPayload == Payload("none", "none", "none", "raw")

Reply(status, payload) == [status |-> status, payload |-> payload]
NoReply == Reply(0, NoPayload)

formatZodError(component) == Payload("error", component, "formatZodError", "raw")
formatJsonSchemaError(component) == Payload("error", component, "formatJsonSchemaError", "raw")

\* a response schema z.object(...) accepts the payloads of its shape
safeParsePayload(d, payload) ==
  [ok |-> d.shape = payload.kind,
   data |-> Payload(payload.kind, payload.part, payload.fmt, "zod")]

----------------------------------------------------------------------------
(* The hooks installed by registerRoutes *)

Event(part, validator, schema, ok) ==
  [part |-> part, validator |-> validator, schema |-> schema, ok |-> ok]

\* mutant: the zod branch does not assign the parsed data to the request
validatePart_KeepsRawData(p, r, opts, request) ==
  LET zodSchema == IF r.hasZodSchemasKey THEN r.zodParts ELSE << >>
      types == IF r.hasSchemaTypesKey THEN r.typeParts ELSE << >>
      typeOf == IF p \in DOMAIN types THEN types[p] ELSE "undefined"
  IN IF typeOf = "zod" /\ p \in DOMAIN zodSchema
     THEN LET res == safeParse(zodSchema[p], request[p])
          IN [ran |-> TRUE, ok |-> res.ok,
              event |-> Event(p, "zod", zodSchema[p], res.ok),
              data |-> request[p],
              error |-> formatZodError(p)]
     ELSE IF typeOf = "json" /\ p \in DOMAIN r.parts /\ opts.ajvInstance
     THEN LET input == IF p = "querystring" THEN coerceQueryValue(request[p]) ELSE request[p]
              res == ajvValidate(r.parts[p], input, "ajv")
          IN [ran |-> TRUE, ok |-> res.ok,
              event |-> Event(p, "ajv", r.parts[p], res.ok),
              data |-> IF p = "querystring" /\ ~res.ok THEN request[p] ELSE res.data,
              error |-> formatJsonSchemaError(p)]
     ELSE [ran |-> FALSE, ok |-> TRUE, event |-> Event(p, "none", Absent, TRUE),
           data |-> request[p], error |-> NoPayload]

\* One part of the preValidation hook: the zod branch when the part's type
\* is 'zod' and a Zod schema is stored for it, else the json branch when its
\* type is 'json', the canonical schema is set and Ajv was loaded.
validatePart(p, r, opts, request) ==
  LET zodSchema == IF r.hasZodSchemasKey THEN r.zodParts ELSE << >>
      types == IF r.hasSchemaTypesKey THEN r.typeParts ELSE << >>
      typeOf == IF p \in DOMAIN types THEN types[p] ELSE "undefined"
  IN IF typeOf = "zod" /\ p \in DOMAIN zodSchema
     THEN LET res == safeParse(zodSchema[p], request[p])
          IN [ran |-> TRUE, ok |-> res.ok,
              event |-> Event(p, "zod", zodSchema[p], res.ok),
              data |-> IF res.ok THEN res.data ELSE request[p],
              error |-> formatZodError(p)]
     ELSE IF typeOf = "json" /\ p \in DOMAIN r.parts /\ opts.ajvInstance
     THEN LET input == IF p = "querystring" THEN coerceQueryValue(request[p]) ELSE request[p]
              res == ajvValidate(r.parts[p], input, "ajv")
          IN [ran |-> TRUE, ok |-> res.ok,
              event |-> Event(p, "ajv", r.parts[p], res.ok),
              \* request.query is assigned on success only; the other parts
              \* are handed to Ajv and coerced in place
              data |-> IF p = "querystring" /\ ~res.ok THEN request[p] ELSE res.data,
              error |-> formatJsonSchemaError(p)]
     ELSE [ran |-> FALSE, ok |-> TRUE, event |-> Event(p, "none", Absent, TRUE),
           data |-> request[p], error |-> NoPayload]

RECURSIVE runParts(_, _, _, _, _)
runParts(i, r, opts, request, log) ==
  IF i > Len(Parts)
  THEN [rejected |-> FALSE, reply |-> NoReply, req |-> request, log |-> log]
  ELSE LET p == Parts[i]
           res == validatePart(p, r, opts, request)
       IN IF ~res.ran THEN runParts(i + 1, r, opts, request, log)
          ELSE IF ~res.ok
          THEN [rejected |-> TRUE, reply |-> Reply(400, res.error),
                req |-> [request EXCEPT ![p] = res.data], log |-> Append(log, res.event)]
          ELSE runParts(i + 1, r, opts, [request EXCEPT ![p] = res.data], Append(log, res.event))

preValidation(r, opts, request) == runParts(1, r, opts, request, << >>)

\* mutant: a failing payload is replaced but the status is not forced to 500
zodValidationHook_KeepsStatus(r, statusCode, payload) ==
  LET schemas == zodResponseSchemas(r)
  IN IF statusCode \in DOMAIN schemas
     THEN LET result == safeParsePayload(schemas[statusCode], payload)
          IN IF ~result.ok
             THEN Reply(statusCode, Payload("validationFailed", "response", "formatZodError", "raw"))
             ELSE Reply(statusCode, result.data)
     ELSE Reply(statusCode, payload)

\* the preSerialization hook
zodValidationHook(r, statusCode, payload) ==
  LET schemas == zodResponseSchemas(r)
  IN IF statusCode \in DOMAIN schemas
     THEN LET result == safeParsePayload(schemas[statusCode], payload)
          IN IF ~result.ok
             THEN Reply(500, Payload("validationFailed", "response", "formatZodError", "raw"))
             ELSE Reply(statusCode, result.data)
     ELSE Reply(statusCode, payload)

\* The host's validation step: with the default validatorCompiler each part
\* of the route schema is checked by the host's Ajv (params, body,
\* querystring, headers); the no-op compiler accepts everything.
HostOrder == <<"params", "body", "querystring", "headers">>

RECURSIVE hostValidate(_, _, _, _)
hostValidate(i, schemaParts, request, log) ==
  IF i > Len(HostOrder)
  THEN [rejected |-> FALSE, part |-> "none", req |-> request, log |-> log]
  ELSE LET p == HostOrder[i]
       IN IF p \notin DOMAIN schemaParts THEN hostValidate(i + 1, schemaParts, request, log)
          ELSE LET res == ajvValidate(schemaParts[p], request[p], "host")
                   ev == Event(p, "host", schemaParts[p], res.ok)
               IN IF ~res.ok
                  THEN [rejected |-> TRUE, part |-> p, req |-> request, log |-> Append(log, ev)]
                  ELSE hostValidate(i + 1, schemaParts, [request EXCEPT ![p] = res.data],
                                    Append(log, ev))

----------------------------------------------------------------------------
(* One route: the module is evaluated, the route registered, requests served *)

ObjDescs == {Absent, Desc("zod", "obj", "author"), Desc("json", "obj", "author")}
QueryDescs == {Absent, Desc("zod", "number", "author"), Desc("json", "number", "author"),
               Desc("json", "string", "author")}
RespDescs == {Desc("json", "data", "author"), Desc("zod", "data", "author"),
              Desc("zod", "error", "author")}

PartMaps ==
  {f \in [PartSet -> ObjDescs \cup QueryDescs] :
     /\ f["querystring"] \in QueryDescs
     /\ \A p \in PartSet \ {"querystring"} : f[p] \in ObjDescs}

ResponseMaps == UNION {[S -> RespDescs] : S \in SUBSET StatusCodes}

ModuleInput(wrapper, parts, respPresent, response, extra) ==
  [wrapper |-> wrapper, parts |-> parts, respPresent |-> respPresent, response |-> response,
   extra |-> extra]

\* route files that call defineRouteZod
ZodModules ==
  {ModuleInput("defineRouteZod", f, TRUE, m, "none") : f \in PartMaps, m \in ResponseMaps}
  \cup {ModuleInput("defineRouteZod", f, FALSE, << >>, "none") : f \in PartMaps}

\* route files that export a plain FastifySchema (defineRoute or `schema`)
PlainModules ==
  {in \in ZodModules :
     /\ \A p \in PartSet : ~isZodSchema(in.parts[p])
     /\ \A c \in DOMAIN in.response : ~isZodSchema(in.response[c])}

AsPlain(in) == ModuleInput("defineRoute", in.parts, in.respPresent, in.response, in.extra)

NoModule == ModuleInput("none", [p \in PartSet |-> Absent], FALSE, << >>, "none")

NoRequest == [p \in PartSet |-> Val("none", "none", "none")]

\* data a request may carry for a part
PartData(p, declared) ==
  IF p = "querystring"
  THEN IF declared THEN {Val("str", s, "raw") : s \in QueryStrings} ELSE {Val("str", "abc", "raw")}
  ELSE IF declared THEN {Val("obj", "ok", "raw"), Val("obj", "bad", "raw")}
       ELSE {Val("obj", "ok", "raw")}

Requests(in) ==
  {r \in [PartSet -> UNION {PartData(p, TRUE) : p \in PartSet}] :
     \A p \in PartSet : r[p] \in PartData(p, in.parts[p].kind # "absent")}

HandlerStatuses == {200, 400}
HandlerPayloads == {Payload("data", "none", "handler", "raw"), Payload("error", "none", "handler", "raw")}

FileIdle ==
  /\ fileName = << >>
  /\ convention = "remix"
  /\ fileStep = "idle"
  /\ fileOutcome = "none"

\* a compiled route with the params schema its module declares
CheckInput(url, schemaType, properties) ==
  [url |-> url, schemaType |-> schemaType, properties |-> properties]

\* the verdict of the parameter consistency check
CheckOutcome(status, missingInPath, missingInSchema) ==
  [status |-> status, missingInPath |-> missingInPath, missingInSchema |-> missingInSchema]

CheckIdle ==
  /\ checkInput = CheckInput(<< >>, "none", {})
  /\ checkStep = "idle"
  /\ checkOutcome = CheckOutcome("none", {}, {})

PathIdle ==
  /\ segmentList = << >>
  /\ pathConvention = "remix"
  /\ results = << >>
  /\ lastIndex = [remix |-> 0, next |-> 0]

\* a chain of directories below the routes directory, the file at its end,
\* and the options of the walk
WalkInput(dirs, file, exports, mount, conv) ==
  [dirs |-> dirs, file |-> file, exports |-> exports, mount |-> mount, convention |-> conv]

\* what became of the file at the end of the chain
WalkOutcome(kind, method, url) == [kind |-> kind, method |-> method, url |-> url]

ServeIdle ==
  /\ inflight = << >>
  /\ validateErrors = << >>

StartupIdle ==
  /\ directories = << >>
  /\ dirStep = << >>
  /\ taskStep = << >>
  /\ loaded = {}
  /\ routeTable = {}
  /\ numberOfValidRouteDirs = 0
  /\ startup = "idle"
  /\ reportedTable = {}

WalkIdle ==
  /\ walkInput = WalkInput(<< >>, << >>, "handler", <<"/">>, "remix")
  /\ walkDepth = 0
  /\ walkStep = "idle"
  /\ walkOutcome = WalkOutcome("none", << >>, << >>)
  /\ walkLog = {}

RouteIdle ==
  /\ stage = "idle"
  /\ moduleInput = NoModule
  /\ zodResponseValidation = FALSE
  /\ route = NoBundle
  /\ routeOptions = NoRouteOptions
  /\ pc = "idle"
  /\ arrived = NoRequest
  /\ req = NoRequest
  /\ validationLog = << >>
  /\ dispatched = NoReply
  /\ handlerRan = FALSE
  /\ handlerSaw = NoRequest
  /\ produced = NoReply
  /\ reply = NoReply
  /\ served = 0

RouteInit(modules) ==
  /\ stage = "module"
  /\ moduleInput \in modules
  /\ zodResponseValidation \in BOOLEAN
  /\ route = NoBundle
  /\ routeOptions = NoRouteOptions
  /\ pc = "idle"
  /\ arrived = NoRequest
  /\ req = NoRequest
  /\ validationLog = << >>
  /\ dispatched = NoReply
  /\ handlerRan = FALSE
  /\ handlerSaw = NoRequest
  /\ produced = NoReply
  /\ reply = NoReply
  /\ served = 0

Init ==
  /\ RouteInit(ZodModules \cup {AsPlain(in) : in \in PlainModules})
  /\ FileIdle
  /\ CheckIdle
  /\ PathIdle
  /\ WalkIdle
  /\ StartupIdle
  /\ ServeIdle

\* the route file's top-level code runs: import(fullPath)
LoadModule ==
  /\ stage = "module"
  /\ route' = IF moduleInput.wrapper = "defineRouteZod" THEN defineRouteZod(moduleInput)
              ELSE defineRoute(moduleInput)
  /\ stage' = "register"
  /\ UNCHANGED <<moduleInput, zodResponseValidation, routeOptions, pc, arrived, req, validationLog,
                 dispatched, handlerRan, handlerSaw, produced, reply, served>>
  /\ UNCHANGED <<fileVars, checkVars, pathVars, walkVars, startupVars, serveVars>>

\* the rest of the per-file callback up to fastify.route(routeOptions)
RegisterRoute ==
  /\ stage = "register"
  /\ routeOptions' = buildRouteOptions(route, zodResponseValidation)
  /\ stage' = "serve"
  /\ UNCHANGED <<moduleInput, zodResponseValidation, route, pc, arrived, req, validationLog,
                 dispatched, handlerRan, handlerSaw, produced, reply, served>>
  /\ UNCHANGED <<fileVars, checkVars, pathVars, walkVars, startupVars, serveVars>>

\* the host routes a request to the route
Receive ==
  /\ stage = "serve"
  /\ pc \in {"idle", "done"}
  /\ served < MaxRequests
  /\ \E r \in Requests(moduleInput) :
       /\ arrived' = r
       /\ req' = r
  /\ validationLog' = << >>
  /\ dispatched' = NoReply
  /\ handlerRan' = FALSE
  /\ handlerSaw' = NoRequest
  /\ produced' = NoReply
  /\ reply' = NoReply
  /\ pc' = IF routeOptions.preValidation THEN "preValidation" ELSE "validation"
  /\ UNCHANGED <<stage, moduleInput, zodResponseValidation, route, routeOptions, served>>
  /\ UNCHANGED <<fileVars, checkVars, pathVars, walkVars, startupVars, serveVars>>

\* reply.send of an object payload: the host runs the route's
\* preSerialization hooks before it serializes, wherever send was called
SendObject(r) ==
  /\ produced' = r
  /\ IF routeOptions.preSerialization
     THEN /\ pc' = "preSerialization"
          /\ UNCHANGED <<reply, served>>
     ELSE /\ pc' = "done"
          /\ reply' = r
          /\ served' = served + 1

\* the preValidation hook runs
PreValidation ==
  /\ pc = "preValidation"
  /\ LET res == preValidation(route, routeOptions, req)
     IN /\ req' = res.req
        /\ validationLog' = res.log
        /\ IF res.rejected
           THEN /\ dispatched' = res.reply
                /\ SendObject(res.reply)
           ELSE /\ pc' = "validation"
                /\ UNCHANGED <<dispatched, produced, reply, served>>
  /\ UNCHANGED <<stage, moduleInput, zodResponseValidation, route, routeOptions, arrived,
                 handlerRan, handlerSaw>>
  /\ UNCHANGED <<fileVars, checkVars, pathVars, walkVars, startupVars, serveVars>>

\* the host's validation step, with the validators the route's
\* validatorCompiler produced
Validation ==
  /\ pc = "validation"
  /\ IF routeOptions.validatorCompiler = "noop"
     THEN /\ pc' = "handler"
          /\ UNCHANGED <<req, validationLog, reply, served>>
     ELSE LET res == hostValidate(1, routeOptions.schema.parts, req, validationLog)
          IN /\ req' = res.req
             /\ validationLog' = res.log
             /\ IF res.rejected
                THEN /\ pc' = "done"
                     /\ reply' = Reply(400, Payload("hostError", res.part, "host", "raw"))
                     /\ served' = served + 1
                ELSE /\ pc' = "handler"
                     /\ UNCHANGED <<reply, served>>
  /\ UNCHANGED <<stage, moduleInput, zodResponseValidation, route, routeOptions, arrived,
                 dispatched, handlerRan, handlerSaw, produced>>
  /\ UNCHANGED <<fileVars, checkVars, pathVars, walkVars, startupVars, serveVars>>

\* the route handler runs and sends its payload
Handler ==
  /\ pc = "handler"
  /\ handlerRan' = TRUE
  /\ handlerSaw' = req
  /\ \E status \in HandlerStatuses, payload \in HandlerPayloads :
       SendObject(Reply(status, payload))
  /\ UNCHANGED <<stage, moduleInput, zodResponseValidation, route, routeOptions, arrived, req,
                 validationLog, dispatched>>
  /\ UNCHANGED <<fileVars, checkVars, pathVars, walkVars, startupVars, serveVars>>

\* the preSerialization hook runs on the payload being sent
PreSerialization ==
  /\ pc = "preSerialization"
  /\ reply' = zodValidationHook(route, produced.status, produced.payload)
  /\ pc' = "done"
  /\ served' = served + 1
  /\ UNCHANGED <<stage, moduleInput, zodResponseValidation, route, routeOptions, arrived, req,
                 validationLog, dispatched, handlerRan, handlerSaw, produced>>
  /\ UNCHANGED <<fileVars, checkVars, pathVars, walkVars, startupVars, serveVars>>

Next ==
  \/ LoadModule
  \/ RegisterRoute
  \/ Receive
  \/ PreValidation
  \/ Validation
  \/ Handler
  \/ PreSerialization

Spec == Init /\ [][Next]_vars

----------------------------------------------------------------------------
(* Two requests in flight on one route *)

\* the requests the host is processing
RequestIds == {"first", "second"}

\* route files with params and querystring schemas and a response schema
\* for 400
ServeModules ==
  {in \in ZodModules :
     /\ in.parts["body"] = Absent /\ in.parts["headers"] = Absent
     /\ in.parts["querystring"] \in {Absent, Desc("json", "number", "author")}
     /\ DOMAIN in.response \subseteq {400}
     /\ \A c \in DOMAIN in.response : in.response[c] = Desc("zod", "error", "author")}

\* validate.errors of a validator that was not called or accepted its data
NoErrors == Val("none", "none", "none")

\* a request between the hooks of the host's life cycle
Inflight(position, data, request, errors, sent, response) ==
  [pc |-> position, arrived |-> data, req |-> request, errors |-> errors, sent |-> sent,
   reply |-> response]

\* the part whose json branch rejected the request, "none" otherwise
RejectedByAjv(res) ==
  IF res.rejected /\ res.log[Len(res.log)].validator = "ajv"
  THEN res.log[Len(res.log)].part ELSE "none"

\* ajvInstance.compile returns the cached validator of the schema object;
\* each call of it assigns its errors property: null, or the errors of
\* the data it was given
errorsAfterHook(res, request, cached) ==
  [p \in PartSet |->
     IF \E k \in 1..Len(res.log) : res.log[k].part = p /\ res.log[k].validator = "ajv"
     THEN IF RejectedByAjv(res) = p THEN request[p] ELSE NoErrors
     ELSE cached[p]]

\* mutant: validate.errors is read after the hook has yielded, when it
\* holds what the validator's last caller left
errorsRead_LastCaller(res, request, cached) ==
  IF RejectedByAjv(res) = "none" THEN NoErrors ELSE cached[RejectedByAjv(res)]

\* validate.errors as the hook reads it in the statement that follows
\* validate(data)
errorsRead(res, request, cached) ==
  IF RejectedByAjv(res) = "none" THEN NoErrors
  ELSE errorsAfterHook(res, request, cached)[RejectedByAjv(res)]

ServeInit ==
  /\ RouteInit(ServeModules)
  /\ FileIdle
  /\ CheckIdle
  /\ PathIdle
  /\ WalkIdle
  /\ StartupIdle
  /\ inflight = [id \in RequestIds |->
                   Inflight("idle", NoRequest, NoRequest, NoErrors, NoReply, NoReply)]
  /\ validateErrors = [p \in PartSet |-> NoErrors]

\* reply.send of an object payload for request id
ServeSend(id, rec, r) ==
  IF routeOptions.preSerialization
  THEN [rec EXCEPT !.pc = "preSerialization", !.sent = r]
  ELSE [rec EXCEPT !.pc = "done", !.sent = r, !.reply = r]

\* the host routes a request to the route
ServeReceive(id) ==
  /\ stage = "serve"
  /\ inflight[id].pc = "idle"
  /\ \E r \in Requests(moduleInput) :
       inflight' = [inflight EXCEPT ![id] =
                      Inflight(IF routeOptions.preValidation THEN "preValidation" ELSE "validation",
                               r, r, NoErrors, NoReply, NoReply)]
  /\ UNCHANGED <<validateErrors, routeVars, fileVars, checkVars, pathVars, walkVars, startupVars>>

\* the preValidation hook runs for request id; it has no await, so it runs
\* from its first statement to its return
ServePreValidation(id) ==
  /\ inflight[id].pc = "preValidation"
  /\ LET rec == inflight[id]
         res == preValidation(route, routeOptions, rec.req)
         checked == [rec EXCEPT !.req = res.req,
                                !.errors = errorsRead(res, rec.req, validateErrors)]
     IN /\ inflight' = [inflight EXCEPT ![id] =
                          IF res.rejected THEN ServeSend(id, checked, res.reply)
                          ELSE [checked EXCEPT !.pc = "validation"]]
        /\ validateErrors' = errorsAfterHook(res, rec.req, validateErrors)
  /\ UNCHANGED <<routeVars, fileVars, checkVars, pathVars, walkVars, startupVars>>

\* the host's validation step for request id
ServeValidation(id) ==
  /\ inflight[id].pc = "validation"
  /\ LET rec == inflight[id]
         res == hostValidate(1, routeOptions.schema.parts, rec.req, << >>)
     IN inflight' = [inflight EXCEPT ![id] =
                       IF routeOptions.validatorCompiler = "noop"
                       THEN [rec EXCEPT !.pc = "handler"]
                       ELSE IF res.rejected
                       THEN [rec EXCEPT !.pc = "done", !.req = res.req,
                                        !.reply = Reply(400, Payload("hostError", res.part,
                                                                     "host", "raw"))]
                       ELSE [rec EXCEPT !.pc = "handler", !.req = res.req]]
  /\ UNCHANGED <<validateErrors, routeVars, fileVars, checkVars, pathVars, walkVars, startupVars>>

\* the route handler runs for request id and sends its payload
ServeHandler(id) ==
  /\ inflight[id].pc = "handler"
  /\ \E status \in HandlerStatuses, payload \in HandlerPayloads :
       inflight' = [inflight EXCEPT ![id] = ServeSend(id, inflight[id], Reply(status, payload))]
  /\ UNCHANGED <<validateErrors, routeVars, fileVars, checkVars, pathVars, walkVars, startupVars>>

\* the preSerialization hook runs on the payload request id is sending
ServePreSerialization(id) ==
  /\ inflight[id].pc = "preSerialization"
  /\ inflight' = [inflight EXCEPT ![id] =
                    [inflight[id] EXCEPT !.pc = "done",
                       !.reply = zodValidationHook(route, inflight[id].sent.status,
                                                   inflight[id].sent.payload)]]
  /\ UNCHANGED <<validateErrors, routeVars, fileVars, checkVars, pathVars, walkVars, startupVars>>

ServeNext ==
  \/ LoadModule
  \/ RegisterRoute
  \/ \E id \in RequestIds : ServeReceive(id)
  \/ \E id \in RequestIds : ServePreValidation(id)
  \/ \E id \in RequestIds : ServeValidation(id)
  \/ \E id \in RequestIds : ServeHandler(id)
  \/ \E id \in RequestIds : ServePreSerialization(id)

ServeSpec == ServeInit /\ [][ServeNext]_vars

----------------------------------------------------------------------------
(* The schema normalizer on its own, over every kind of description *)

\* the JSON Schema `false` is a JSONSchema value too
FalseSchema == Desc("false", "nothing", "author")

NormPartDescs == {Absent, Desc("zod", "obj", "author"), Desc("json", "obj", "author"), FalseSchema}
NormRespDescs == RespDescs \cup {FalseSchema}

\* the other FastifySchema properties of the input: none, or `tags`
NormExtras == {"none", "tags"}

NormModules ==
  {ModuleInput("defineRouteZod", f, TRUE, m, x) :
     f \in [PartSet -> NormPartDescs],
     m \in UNION {[S -> NormRespDescs] : S \in SUBSET StatusCodes},
     x \in NormExtras}
  \cup {ModuleInput("defineRouteZod", f, FALSE, << >>, x) :
          f \in [PartSet -> NormPartDescs], x \in NormExtras}

NormInit ==
  /\ RouteInit(NormModules)
  /\ zodResponseValidation = FALSE
  /\ FileIdle
  /\ CheckIdle
  /\ PathIdle
  /\ WalkIdle
  /\ StartupIdle
  /\ ServeIdle

\* the schema object of a bundle, read as the argument of defineRouteZod
AsInput(bundle) ==
  ModuleInput("defineRouteZod",
              [p \in PartSet |-> IF p \in DOMAIN bundle.parts THEN bundle.parts[p] ELSE Absent],
              bundle.respPresent, bundle.response, bundle.extra)

\* defineRouteZod on a schema that carries __zodSchemas and __schemaTypes:
\* both are copied with the other keys, __schemaTypes is then assigned in
\* every case and __zodSchemas only when the new map has a key
defineRouteZodAgain(bundle) ==
  LET out == defineRouteZod(AsInput(bundle))
  IN IF out.hasZodSchemasKey \/ ~bundle.hasZodSchemasKey THEN out
     ELSE [out EXCEPT !.hasZodSchemasKey = TRUE, !.zodParts = bundle.zodParts,
                      !.zodRespPresent = bundle.zodRespPresent,
                      !.zodResponse = bundle.zodResponse]

\* the schema of the returned route is passed to defineRouteZod again
NormalizeAgain ==
  /\ stage = "register"
  /\ moduleInput.wrapper = "defineRouteZod"
  /\ route' = defineRouteZodAgain(route)
  /\ stage' = "normalizedAgain"
  /\ UNCHANGED <<moduleInput, zodResponseValidation, routeOptions, pc, arrived, req, validationLog,
                 dispatched, handlerRan, handlerSaw, produced, reply, served>>
  /\ UNCHANGED <<fileVars, checkVars, pathVars, walkVars, startupVars, serveVars>>

NormNext == LoadModule \/ NormalizeAgain

NormSpec == NormInit /\ [][NormNext]_vars

----------------------------------------------------------------------------
(* File names: strings as sequences of atoms *)

\* A string is a sequence of atoms: the characters that matter to the
\* grammar, and words of other characters (no word is a concatenation of
\* other atoms).
NameAtoms == {".", "[", "]", "get", "GET", "ts", "md"}

\* the escape token '[.]'
EscapeToken == <<"[", ".", "]">>

\* '__LITERAL_DOT__', a word without dots
Placeholder == "__LITERAL_DOT__"

validMethods == {"delete", "get", "head", "patch", "post", "put"}

\* methodRegex: ^(delete|get|head|patch|post|put)(\..+)?$
methodRegex(token) ==
  /\ Len(token) >= 1
  /\ token[1] \in validMethods
  /\ Len(token) = 1 \/ (Len(token) >= 3 /\ token[2] = ".")

\* fileName.replace(/\[\.\]/g, placeholder)
RECURSIVE replaceEscapes(_)
replaceEscapes(name) ==
  IF name = << >> THEN << >>
  ELSE IF Len(name) >= 3 /\ SubSeq(name, 1, 3) = EscapeToken
       THEN <<Placeholder>> \o replaceEscapes(SubSeq(name, 4, Len(name)))
       ELSE <<name[1]>> \o replaceEscapes(Tail(name))

\* String.prototype.split(sep): the pieces between the separators, empty
\* pieces included
RECURSIVE split(_, _, _)
split(str, sep, piece) ==
  IF str = << >> THEN <<piece>>
  ELSE IF str[1] = sep THEN <<piece>> \o split(Tail(str), sep, << >>)
       ELSE split(Tail(str), sep, Append(piece, str[1]))

\* the pieces of a segment that contains the placeholder, '[.]' between them
RECURSIVE restoreEscapes(_, _)
restoreEscapes(parts, i) ==
  IF i > Len(parts) THEN << >>
  ELSE (IF parts[i] # << >> THEN <<parts[i]>> ELSE << >>)
       \o (IF i < Len(parts) THEN <<EscapeToken>> ELSE << >>)
       \o restoreEscapes(parts, i + 1)

RECURSIVE processSegments(_, _)
processSegments(segments, i) ==
  IF i > Len(segments) THEN << >>
  ELSE LET seg == segments[i]
       IN (IF seg = <<Placeholder>> THEN <<EscapeToken>>
           ELSE IF \E k \in 1..Len(seg) : seg[k] = Placeholder
                THEN restoreEscapes(split(seg, Placeholder, << >>), 1)
           ELSE IF seg # << >> THEN <<seg>>
           ELSE << >>)
          \o processSegments(segments, i + 1)

\* result: "throw" with the error, "null", or "ok" with the three fields
ParseResult(kind, error, routeSegments, method) ==
  [kind |-> kind, error |-> error, routeSegments |-> routeSegments, method |-> method]

parseFileName(name, extensions) ==
  LET segments == split(replaceEscapes(name), ".", << >>)
      processed == processSegments(segments, 1)
      n == Len(processed)
  IN IF Len(segments) < 2 THEN ParseResult("throw", "segments", << >>, << >>)
     ELSE IF n = 0 \/ processed[n] \notin extensions THEN ParseResult("null", "none", << >>, << >>)
     ELSE IF n < 2 THEN ParseResult("throw", "methodMissing", << >>, << >>)
     ELSE ParseResult("ok", "none", SubSeq(processed, 1, n - 2), processed[n - 1])

toHttpMethod(method) == method # << >> /\ methodRegex(method)

----------------------------------------------------------------------------
(* Route path compilation *)

Last(seq) == seq[Len(seq)]

\* result of a compilation step: the value, or the error thrown
Compiled(ok, value) == [ok |-> ok, value |-> value]

\* mutant: the escape token is dropped like an empty segment
RECURSIVE mergeLiteralDots_DropsEscape(_, _, _)
mergeLiteralDots_DropsEscape(segments, i, merged) ==
  IF i > Len(segments) THEN Compiled(TRUE, merged)
  ELSE IF segments[i] = << >> \/ segments[i] = EscapeToken
  THEN mergeLiteralDots_DropsEscape(segments, i + 1, merged)
  ELSE mergeLiteralDots_DropsEscape(segments, i + 1, Append(merged, segments[i]))

\* mergeLiteralDots: '[.]' is merged with its neighbours; after a '$'
\* parameter it starts a segment of its own that begins with '.'
RECURSIVE mergeLiteralDots(_, _, _)
mergeLiteralDots(segments, i, merged) ==
  IF i > Len(segments) THEN Compiled(TRUE, merged)
  ELSE LET segment == segments[i]
           hasNext == i + 1 <= Len(segments) /\ segments[i + 1] # << >>
           tail == IF hasNext THEN <<".">> \o segments[i + 1] ELSE <<".">>
           step == IF hasNext THEN 2 ELSE 1
       IN IF segment = << >> THEN mergeLiteralDots(segments, i + 1, merged)
          ELSE IF segment = EscapeToken
          THEN IF merged = << >>
               THEN Compiled(FALSE, <<"Invalid segment at start of route">> \o segment)
               ELSE IF Last(merged)[1] = "$"
               THEN mergeLiteralDots(segments, i + step, Append(merged, tail))
               ELSE mergeLiteralDots(segments, i + step,
                                     [merged EXCEPT ![Len(merged)] = @ \o tail])
          ELSE mergeLiteralDots(segments, i + 1, Append(merged, segment))

NoneOf(str, chars) == \A k \in 1..Len(str) : str[k] \notin chars

\* remixSegment: ^\$?(\[\.\]|[^[\]$&]*)$
remixSegment(segment) ==
  LET body == IF segment # << >> /\ segment[1] = "$" THEN Tail(segment) ELSE segment
  IN body = EscapeToken \/ NoneOf(body, {"[", "]", "$", "&"})

\* nextSegment: ^(?!\$)(\[\.\]|[[]?(?:\.\.\.|[^[\]&]*)[\]]?)$
nextSegment(segment) ==
  /\ segment = << >> \/ segment[1] # "$"
  /\ \/ segment = EscapeToken
     \/ \E open \in {0, 1}, close \in {0, 1} :
          /\ open + close <= Len(segment)
          /\ open = 1 => segment[1] = "["
          /\ close = 1 => Last(segment) = "]"
          /\ LET middle == SubSeq(segment, 1 + open, Len(segment) - close)
             IN middle = <<".", ".", ".">> \/ NoneOf(middle, {"[", "]", "&"})

\* mutant: the segment patterns carry the global flag
RegExpFlags_Global == {"g"}

\* the flags of the RegExp literals remixSegment and nextSegment: none
RegExpFlags == {}

\* the lastIndex of both RegExp objects when the module is loaded
FreshRegExps == [remix |-> 0, next |-> 0]

\* RegExp.prototype.test for a pattern anchored at both ends: with the
\* global or sticky flag the search starts at lastIndex and moves it
RegExpTest(matches, str, index) ==
  IF RegExpFlags \cap {"g", "y"} # {}
  THEN IF index = 0 /\ matches THEN [matched |-> TRUE, lastIndex |-> Len(str)]
       ELSE [matched |-> FALSE, lastIndex |-> 0]
  ELSE [matched |-> matches, lastIndex |-> index]

\* what a conversion returns or throws, and the RegExp state it leaves
Converted(ok, value, index) == [ok |-> ok, value |-> value, lastIndex |-> index]

\* an Error with its message and the segment it names
Thrown(message, segment) == <<message>> \o segment

\* the loop of toRouteRemixStyle over the merged segments
RECURSIVE remixParts(_, _, _, _)
remixParts(merged, i, pathParts, index) ==
  IF i > Len(merged) THEN Converted(TRUE, pathParts, index)
  ELSE LET segment == merged[i]
           tested == RegExpTest(remixSegment(segment), segment, index)
       IN IF segment = << >> THEN remixParts(merged, i + 1, pathParts, index)
          ELSE IF ~tested.matched
          THEN Converted(FALSE, Thrown("Invalid segment", segment), tested.lastIndex)
          ELSE IF segment[1] = "."
          THEN IF pathParts = << >>
               THEN Converted(FALSE, Thrown("Invalid segment at start of route", segment),
                              tested.lastIndex)
               ELSE remixParts(merged, i + 1,
                               [pathParts EXCEPT ![Len(pathParts)] = @ \o segment],
                               tested.lastIndex)
          ELSE IF segment[1] = "$"
          THEN remixParts(merged, i + 1,
                          Append(pathParts, IF Len(segment) > 1 THEN <<":">> \o Tail(segment)
                                            ELSE <<"*">>),
                          tested.lastIndex)
          ELSE remixParts(merged, i + 1, Append(pathParts, segment), tested.lastIndex)

\* the loop of toRouteNextStyle over the merged segments
RECURSIVE nextParts(_, _, _, _)
nextParts(merged, i, pathParts, index) ==
  IF i > Len(merged) THEN Converted(TRUE, pathParts, index)
  ELSE LET segment == merged[i]
           param == SubSeq(segment, 2, Len(segment) - 1)
           tested == RegExpTest(nextSegment(segment), segment, index)
       IN IF segment = << >> THEN nextParts(merged, i + 1, pathParts, index)
          ELSE IF ~tested.matched
          THEN Converted(FALSE, Thrown("Invalid segment", segment), tested.lastIndex)
          ELSE IF segment[1] = "."
          THEN IF pathParts = << >>
               THEN Converted(FALSE, Thrown("Invalid segment at start of route", segment),
                              tested.lastIndex)
               ELSE nextParts(merged, i + 1,
                              [pathParts EXCEPT ![Len(pathParts)] = @ \o segment],
                              tested.lastIndex)
          ELSE IF Len(segment) >= 2 /\ segment[1] = "[" /\ Last(segment) = "]"
          THEN IF Len(param) >= 3 /\ SubSeq(param, 1, 3) = <<".", ".", ".">>
               THEN nextParts(merged, i + 1, Append(pathParts, <<"*">>), tested.lastIndex)
               ELSE IF param # << >>
               THEN nextParts(merged, i + 1, Append(pathParts, <<":">> \o param),
                              tested.lastIndex)
               ELSE Converted(FALSE, Thrown("Invalid segment in convention next", segment),
                              tested.lastIndex)
          ELSE nextParts(merged, i + 1, Append(pathParts, segment), tested.lastIndex)

\* Array.prototype.join('/')
RECURSIVE join(_, _)
join(parts, i) ==
  IF i > Len(parts) THEN << >>
  ELSE parts[i] \o (IF i < Len(parts) THEN <<"/">> ELSE << >>) \o join(parts, i + 1)

toRouteRemixStyle(segments, index) ==
  LET merged == mergeLiteralDots(segments, 1, << >>)
      parts == remixParts(merged.value, 1, << >>, index)
  IN IF ~merged.ok THEN Converted(FALSE, merged.value, index)
     ELSE IF ~parts.ok THEN parts
     ELSE Converted(TRUE, join(parts.value, 1), parts.lastIndex)

toRouteNextStyle(segments, index) ==
  LET merged == mergeLiteralDots(segments, 1, << >>)
      parts == nextParts(merged.value, 1, << >>, index)
  IN IF ~merged.ok THEN Converted(FALSE, merged.value, index)
     ELSE IF ~parts.ok THEN parts
     ELSE Converted(TRUE, join(parts.value, 1), parts.lastIndex)

\* the path or the error, and the state of both RegExp objects afterwards
convertRoutePath(segments, conv, regExps) ==
  LET remix == toRouteRemixStyle(segments, regExps.remix)
      next == toRouteNextStyle(segments, regExps.next)
  IN IF conv = "remix"
     THEN [ok |-> remix.ok, value |-> remix.value,
           regExps |-> [regExps EXCEPT !.remix = remix.lastIndex]]
     ELSE IF conv = "next"
     THEN [ok |-> next.ok, value |-> next.value,
           regExps |-> [regExps EXCEPT !.next = next.lastIndex]]
     ELSE [ok |-> FALSE, value |-> Thrown("Invalid convention", << >>), regExps |-> regExps]

----------------------------------------------------------------------------
(* convertRoutePath called on one segment list *)

\* longest segment list
MaxSegments == 4

\* calls made with the same segment list
MaxCalls == 2

\* one segment of each form: literals, '$' and '$id', '[id]', '[...id]',
\* '[]', '[id', the escape token, and a literal with a character that is
\* neither alphanumeric nor hyphen nor underscore
PathSegments ==
  { <<"api">>, <<"v1">>, <<"$">>, <<"$", "id">>, <<"[", "id", "]">>,
    <<"[", ".", ".", ".", "id", "]">>, <<"[", "]">>, <<"[", "id">>, EscapeToken,
    <<"a", "@", "b">> }

SegmentLists == UNION {[1..n -> PathSegments] : n \in 0..MaxSegments}

\* the list of the call made before the others
OtherList == << <<"api">> >>

\* one call: the array passed, and the array and the result after the call
Call(passed, after, converted) ==
  [passed |-> passed, after |-> after, ok |-> converted.ok, value |-> converted.value]

PathInit ==
  /\ RouteIdle
  /\ FileIdle
  /\ CheckIdle
  /\ WalkIdle
  /\ StartupIdle
  /\ ServeIdle
  /\ segmentList \in SegmentLists
  /\ pathConvention \in {"remix", "next"}
  /\ results = << >>
  /\ lastIndex = FreshRegExps

\* an earlier call of the same walk, for another file
ConvertOtherPath ==
  /\ results = << >>
  /\ LET converted == convertRoutePath(OtherList, pathConvention, lastIndex)
     IN /\ results' = Append(results, Call(OtherList, OtherList, converted))
        /\ lastIndex' = converted.regExps
  /\ UNCHANGED <<segmentList, pathConvention, routeVars, fileVars, checkVars, walkVars, startupVars, serveVars>>

\* convertRoutePath(segments, convention, fullPath) on the caller's list;
\* neither mergeLiteralDots nor the loops assign to an element of segments
ConvertRoutePath ==
  /\ results # << >>
  /\ Len(results) < 1 + MaxCalls
  /\ LET converted == convertRoutePath(segmentList, pathConvention, lastIndex)
     IN /\ results' = Append(results, Call(segmentList, segmentList, converted))
        /\ lastIndex' = converted.regExps
  /\ UNCHANGED <<segmentList, pathConvention, routeVars, fileVars, checkVars, walkVars, startupVars, serveVars>>

PathNext == ConvertOtherPath \/ ConvertRoutePath

PathSpec == PathInit /\ [][PathNext]_vars

----------------------------------------------------------------------------
(* The directory walk, one file entry at a time *)

\* longest file name, in atoms
MaxNameLen == 5

\* the default of the extensions option, without the leading dots
extensions == {<<"js">>, <<"ts">>, <<"jsx">>, <<"tsx">>}

EndsWith(name, suffix) ==
  Len(name) >= Len(suffix) /\ SubSeq(name, Len(name) - Len(suffix) + 1, Len(name)) = suffix

\* defaultExcludePatterns, each as a test on a name
defaultExcludePatterns(name) ==
  << name # << >> /\ name[1] \in {".", "|", "_"},
     \E marker \in {"test", "spec"}, ext \in {"js", "ts"} :
        EndsWith(name, <<".", marker, ".", ext>>),
     \E k \in 1..Len(name) : name[k] \in {"__test__", "__spec__"},
     EndsWith(name, <<".", "d", ".", "ts">>) >>

\* mutant: no pattern is tried
shouldExcludeFile_NoPattern(name) == 0

\* shouldExcludeFile: the first matching pattern, 0 for none
shouldExcludeFile(name) ==
  LET patterns == defaultExcludePatterns(name)
      matching == {k \in 1..Len(patterns) : patterns[k]}
  IN IF matching = {} THEN 0
     ELSE CHOOSE k \in matching : \A other \in matching : k <= other

\* the names a directory entry may have
FileNames == UNION {[1..n -> NameAtoms] : n \in 1..MaxNameLen}

\* what the imported module exports
ModuleExports == {"handler", "handlerNotFunction", "schemaNotObject"}

FileInit ==
  /\ RouteIdle
  /\ CheckIdle
  /\ PathIdle
  /\ WalkIdle
  /\ StartupIdle
  /\ ServeIdle
  /\ fileName \in FileNames
  /\ convention \in {"remix", "next"}
  /\ fileStep = "listed"
  /\ fileOutcome = "none"

\* registerRoutes, for a directory entry that is a file, up to the import
ProcessEntry ==
  /\ fileStep = "listed"
  /\ LET parsed == parseFileName(fileName, extensions)
         routePath == convertRoutePath(parsed.routeSegments, convention, FreshRegExps)
     IN IF shouldExcludeFile(fileName) # 0
        THEN fileStep' = "done" /\ fileOutcome' = "excluded"
        ELSE IF parsed.kind = "throw"
        THEN fileStep' = "done" /\ fileOutcome' = "fatal"
        ELSE IF parsed.kind = "null"
        THEN fileStep' = "done" /\ fileOutcome' = "skipped"
        ELSE IF ~toHttpMethod(parsed.method) \/ ~routePath.ok
        THEN fileStep' = "done" /\ fileOutcome' = "fatal"
        ELSE fileStep' = "importing" /\ fileOutcome' = "none"
  /\ UNCHANGED <<fileName, convention, routeVars, checkVars, pathVars, walkVars, startupVars, serveVars>>

\* registerRoutes, from the resolution of the import to fastify.route
ImportAndRegister ==
  /\ fileStep = "importing"
  /\ \E exports \in ModuleExports :
       fileOutcome' = IF exports = "handler" THEN "registered" ELSE "fatal"
  /\ fileStep' = "done"
  /\ UNCHANGED <<fileName, convention, routeVars, checkVars, pathVars, walkVars, startupVars, serveVars>>

FileNext == ProcessEntry \/ ImportAndRegister

FileSpec == FileInit /\ [][FileNext]_vars

----------------------------------------------------------------------------
(* The directory walk along one chain of nested directories *)

\* longest list of route segments, directories and file name together
MaxWalkSegments == 3

\* buildUrl: the route path under the mount point
buildUrl(routePath, mount) ==
  LET url == IF routePath # << >> /\ routePath[1] = "/" THEN Tail(routePath) ELSE routePath
      mounted == IF mount # <<"/">> THEN mount \o <<"/">> \o url ELSE url
  IN IF mounted = << >> \/ mounted[1] # "/" THEN <<"/">> \o mounted ELSE mounted

\* the directory the walk starts from
baseRootDir == <<"routes">>

\* path.join(dir, fileName)
pathJoin(dir, name) == dir \o <<"/">> \o name

\* the dir argument of registerRoutes after depth recursive calls
RECURSIVE DirAt(_, _)
DirAt(dirs, depth) ==
  IF depth = 0 THEN baseRootDir ELSE pathJoin(DirAt(dirs, depth - 1), dirs[depth])

\* mutant: only the innermost directory counts
baseSegments_InnermostOnly(dir) ==
  LET pieces == SelectSeq(split(SubSeq(dir, Len(baseRootDir) + 1, Len(dir)), "/", << >>),
                          LAMBDA piece : piece # << >>)
  IN IF pieces = << >> THEN << >> ELSE <<Last(pieces)>>

\* dir.replace(baseRootDir, '').split('/').filter(Boolean); dir begins
\* with baseRootDir, so the first occurrence is the prefix
baseSegments(dir) ==
  SelectSeq(split(SubSeq(dir, Len(baseRootDir) + 1, Len(dir)), "/", << >>),
            LAMBDA piece : piece # << >>)

\* mutant: the module is imported before the method and the segments are
\* validated
fileEntry_ImportsFirst(dir, name, conv) ==
  LET parsed == parseFileName(name, extensions)
      routePath == convertRoutePath(baseSegments(dir) \o parsed.routeSegments, conv, FreshRegExps)
  IN IF shouldExcludeFile(name) # 0 THEN WalkOutcome("excluded", << >>, << >>)
     ELSE IF parsed.kind = "throw" THEN WalkOutcome("fatal", << >>, << >>)
     ELSE IF parsed.kind = "null" THEN WalkOutcome("skipped", << >>, << >>)
     ELSE WalkOutcome("importing", parsed.method,
                      IF routePath.ok THEN routePath.value ELSE << >>)

\* registerRoutes for a file entry up to the import; routePath is kept in
\* the url field until buildUrl is called
fileEntry(dir, name, conv) ==
  LET parsed == parseFileName(name, extensions)
      routePath == convertRoutePath(baseSegments(dir) \o parsed.routeSegments, conv, FreshRegExps)
  IN IF shouldExcludeFile(name) # 0 THEN WalkOutcome("excluded", << >>, << >>)
     ELSE IF parsed.kind = "throw" THEN WalkOutcome("fatal", << >>, << >>)
     ELSE IF parsed.kind = "null" THEN WalkOutcome("skipped", << >>, << >>)
     ELSE IF ~toHttpMethod(parsed.method) \/ ~routePath.ok
     THEN WalkOutcome("fatal", << >>, << >>)
     ELSE WalkOutcome("importing", parsed.method, routePath.value)

\* mutant: a module without a valid handler is left out without an error
importedEntry_SkipsInvalid(entry, exports, mount) ==
  IF exports = "handler"
  THEN WalkOutcome("registered", entry.method, buildUrl(entry.url, mount))
  ELSE WalkOutcome("skipped", << >>, << >>)

\* registerRoutes from the resolution of the import to fastify.route
importedEntry(entry, exports, mount) ==
  IF exports = "handler"
  THEN WalkOutcome("registered", entry.method, buildUrl(entry.url, mount))
  ELSE WalkOutcome("fatal", << >>, << >>)

\* route segments: two literals, a remix parameter, a name the default
\* patterns exclude, and the escape token
WalkSegments == {<<"api">>, <<"users">>, <<"$", "id">>, <<"_", "tmp">>, EscapeToken}

WalkLists == UNION {[1..n -> WalkSegments] : n \in 0..MaxWalkSegments}

\* what follows the route segments in the file name: method and extension,
\* the extension alone, an extension that is not accepted, and the test
\* and spec markers before two of the accepted extensions
Endings ==
  { << <<"get">>, <<"ts">> >>, << <<"ts">> >>, << <<"get">>, <<"md">> >>,
    << <<"get">>, <<"test">>, <<"ts">> >>, << <<"get">>, <<"spec">>, <<"tsx">> >> }

\* mount points: the default, one level, one level with a trailing
\* slash, and two slashes
Mounts == { <<"/">>, <<"/", "api">>, <<"/", "api", "/">>, <<"/", "/">> }

\* tokens joined with '.' into a name
RECURSIVE DottedName(_, _)
DottedName(tokens, i) ==
  IF i > Len(tokens) THEN << >>
  ELSE tokens[i] \o (IF i < Len(tokens) THEN <<".">> ELSE << >>) \o DottedName(tokens, i + 1)

WalkInit ==
  /\ RouteIdle
  /\ FileIdle
  /\ CheckIdle
  /\ PathIdle
  /\ StartupIdle
  /\ ServeIdle
  /\ \E list \in WalkLists, ending \in Endings, exports \in ModuleExports,
        mount \in Mounts, conv \in {"remix", "next"} :
       \E k \in 0..Len(list) :
         walkInput = WalkInput(SubSeq(list, 1, k),
                               DottedName(SubSeq(list, k + 1, Len(list)) \o ending, 1),
                               exports, mount, conv)
  /\ walkDepth = 0
  /\ walkStep = "walking"
  /\ walkOutcome = WalkOutcome("none", << >>, << >>)
  /\ walkLog = {}

\* registerRoutes for the entry that is the next directory of the chain
EnterDirectory ==
  /\ walkStep = "walking"
  /\ walkDepth < Len(walkInput.dirs)
  /\ IF shouldExcludeFile(walkInput.dirs[walkDepth + 1]) # 0
     THEN /\ walkStep' = "done"
          /\ walkOutcome' = WalkOutcome("excluded", << >>, << >>)
          /\ UNCHANGED walkDepth
     ELSE /\ walkDepth' = walkDepth + 1
          /\ UNCHANGED <<walkStep, walkOutcome>>
  /\ UNCHANGED <<walkInput, walkLog, routeVars, fileVars, checkVars, pathVars, startupVars, serveVars>>

\* registerRoutes for the file at the end of the chain, up to the import
VisitFile ==
  /\ walkStep = "walking"
  /\ walkDepth = Len(walkInput.dirs)
  /\ LET entry == fileEntry(DirAt(walkInput.dirs, walkDepth), walkInput.file,
                            walkInput.convention)
     IN /\ walkOutcome' = IF entry.kind = "importing"
                          THEN WalkOutcome("none", entry.method, entry.url)
                          ELSE entry
        /\ walkStep' = IF entry.kind = "importing" THEN "importing" ELSE "done"
        /\ walkLog' = IF entry.kind = "excluded" THEN walkLog ELSE walkLog \cup {"parsed"}
  /\ UNCHANGED <<walkInput, walkDepth, routeVars, fileVars, checkVars, pathVars, startupVars, serveVars>>

\* the import resolves; the exports are checked and the route registered
ImportAndRegisterRoute ==
  /\ walkStep = "importing"
  /\ walkOutcome' = importedEntry(walkOutcome, walkInput.exports, walkInput.mount)
  /\ walkLog' = walkLog \cup (IF walkInput.exports = "handler"
                              THEN {"imported", "registered"} ELSE {"imported"})
  /\ walkStep' = "done"
  /\ UNCHANGED <<walkInput, walkDepth, routeVars, fileVars, checkVars, pathVars, startupVars, serveVars>>

WalkNext == EnterDirectory \/ VisitFile \/ ImportAndRegisterRoute

WalkSpec == WalkInit /\ [][WalkNext]_vars

----------------------------------------------------------------------------
(* Route-table construction over the configured roots *)

\* most entries of one directory
MaxEntries == 2

\* a file of a route directory: its name, what its module exports, and
\* whether its schema makes registerRoutes load the JSON Schema validator
\* (needsCustomValidation) before it registers the route
FileEntry(name, exports, custom) == [name |-> name, exports |-> exports, custom |-> custom]

\* two route files, each with a second module; a name without a method, a
\* name that opens with the escape token, a name the default patterns
\* exclude, and an extension that is not accepted
RouteFiles ==
  { FileEntry(DottedName(<< <<"users">>, <<"get">>, <<"ts">> >>, 1), "handler", FALSE),
    FileEntry(DottedName(<< <<"users">>, <<"get">>, <<"ts">> >>, 1), "handlerNotFunction", FALSE),
    FileEntry(DottedName(<< <<"get">>, <<"ts">> >>, 1), "handler", FALSE),
    FileEntry(DottedName(<< <<"get">>, <<"ts">> >>, 1), "handler", TRUE),
    FileEntry(DottedName(<< <<"users">>, <<"ts">> >>, 1), "handler", FALSE),
    FileEntry(DottedName(<< EscapeToken, <<"get">>, <<"ts">> >>, 1), "handler", FALSE),
    FileEntry(DottedName(<< <<"_", "tmp">>, <<"get">>, <<"ts">> >>, 1), "handlerNotFunction", FALSE),
    FileEntry(DottedName(<< <<"get">>, <<"md">> >>, 1), "handler", FALSE) }

\* what readdir returns: files of different names
Listings ==
  {listing \in SUBSET RouteFiles :
     /\ Cardinality(listing) <= MaxEntries
     /\ \A e, f \in listing : e.name = f.name => e = f}

\* a configured root (parent 0) or a subdirectory of directory parent
Directory(parent, name, kind, absolute, listing) ==
  [parent |-> parent, name |-> name, kind |-> kind, absolute |-> absolute, listing |-> listing]

\* what a configured root resolves to
RootKinds == {"directory", "missing", "file"}

\* relative roots that are directories, with every listing; and one root
\* of every kind given as a relative and as an absolute path
Roots ==
  {Directory(0, << >>, "directory", FALSE, listing) : listing \in Listings}
    \cup {Directory(0, << >>, kind, absolute, {}) : kind \in RootKinds, absolute \in BOOLEAN}

\* one root, two roots, or one root with a subdirectory
Trees ==
  {<<root>> : root \in Roots}
    \cup {<<root, other>> : root \in Roots, other \in Roots}
    \cup {<<root, Directory(1, name, "directory", FALSE, listing)>> :
            root \in {r \in Roots : r.kind = "directory"},
            name \in {<<"users">>, <<"_", "tmp">>}, listing \in Listings}

\* the per-entry callbacks of registerRoutes for the files of the tree
Tasks(tree) == {<<i, e>> : i \in DOMAIN tree, e \in UNION {tree[j].listing : j \in DOMAIN tree}}
                 \cap {t \in (DOMAIN tree) \X RouteFiles : t[2] \in tree[t[1]].listing}

\* the names of the directories from the root down to directory i
RECURSIVE DirChain(_, _)
DirChain(tree, i) ==
  IF tree[i].parent = 0 THEN << >> ELSE DirChain(tree, tree[i].parent) \o <<tree[i].name>>

\* the chains of directory names of the trees
Chains == {<< >>, << <<"users">> >>, << <<"_", "tmp">> >>}

\* registerRoutes up to the import, for every file of every directory of
\* the trees: dir is the argument of the call that lists the directory
EntryTable ==
  [chain \in Chains, name \in {e.name : e \in RouteFiles} |->
     fileEntry(DirAt(chain, Len(chain)), name, "remix")]

\* the entry of task t
TaskEntry(tree, t) == EntryTable[DirChain(tree, t[1]), t[2].name]

\* the subdirectories that registerRoutes skips
ExcludedDirs == {chain \in Chains : chain # << >> /\ shouldExcludeFile(Last(chain)) # 0}

\* a route as the host keeps it; file stands for the handler and the
\* schema, which come from that file's module
Route(method, url, file) == [method |-> method, url |-> url, file |-> file]

\* mutant: a route whose method and url are taken is dropped silently
fastifyRoute_KeepsFirst(table, r) ==
  IF \E q \in table : q.method = r.method /\ q.url = r.url
  THEN [ok |-> TRUE, table |-> table]
  ELSE [ok |-> TRUE, table |-> table \cup {r}]

\* fastify.route: the host refuses a second route for the same method and url
fastifyRoute(table, r) ==
  IF \E q \in table : q.method = r.method /\ q.url = r.url
  THEN [ok |-> FALSE, table |-> table]
  ELSE [ok |-> TRUE, table |-> table \cup {r}]

StartupInit ==
  /\ RouteIdle
  /\ FileIdle
  /\ CheckIdle
  /\ PathIdle
  /\ WalkIdle
  /\ ServeIdle
  /\ directories \in Trees
  /\ dirStep = [i \in DOMAIN directories |-> "pending"]
  /\ taskStep = [t \in Tasks(directories) |-> "unlisted"]
  /\ loaded = {}
  /\ routeTable = {}
  /\ numberOfValidRouteDirs = 0
  /\ startup = "running"
  /\ reportedTable = {}

\* a rejection reaches the plugin through the enclosing Promise.all calls;
\* the first one fails the plugin, later ones are dropped
Reject(failed, table) ==
  /\ startup' = IF failed /\ startup = "running" THEN "failed" ELSE startup
  /\ reportedTable' = IF failed /\ startup = "running" THEN table ELSE reportedTable

\* the callback for one configured root, up to the call of registerRoutes
StatRoot(i) ==
  /\ dirStep[i] = "pending"
  /\ directories[i].parent = 0
  /\ IF directories[i].kind = "directory"
     THEN /\ numberOfValidRouteDirs' = numberOfValidRouteDirs + 1
          /\ dirStep' = [dirStep EXCEPT ![i] = "reading"]
     ELSE /\ dirStep' = [dirStep EXCEPT ![i] = "skipped"]
          /\ UNCHANGED numberOfValidRouteDirs
  /\ UNCHANGED <<directories, taskStep, loaded, routeTable, startup, reportedTable,
                 routeVars, fileVars, checkVars, pathVars, walkVars, serveVars>>

\* readdir resolves: every entry's callback runs up to its first await
ScanDirectory(i) ==
  /\ dirStep[i] = "reading"
  /\ LET entry(t) == TaskEntry(directories, t)
         listed == {t \in DOMAIN taskStep : t[1] = i}
     IN /\ taskStep' = [t \in DOMAIN taskStep |->
                          IF t \in listed THEN entry(t).kind ELSE taskStep[t]]
        /\ loaded' = loaded \cup {t \in listed : entry(t).kind = "importing"}
        /\ Reject(\E t \in listed : entry(t).kind = "fatal", routeTable)
  /\ dirStep' = [j \in DOMAIN dirStep |->
                   IF j = i THEN "scanned"
                   ELSE IF directories[j].parent = i
                   THEN IF DirChain(directories, j) \in ExcludedDirs
                        THEN "skipped" ELSE "reading"
                   ELSE dirStep[j]]
  /\ UNCHANGED <<directories, routeTable, numberOfValidRouteDirs,
                 routeVars, fileVars, checkVars, pathVars, walkVars, serveVars>>

\* the route of task t goes to the host
RegisterFileRoute(t) ==
  LET entry == importedEntry(TaskEntry(directories, t), t[2].exports, <<"/">>)
      added == fastifyRoute(routeTable, Route(entry.method, entry.url, t))
  IN /\ routeTable' = added.table
     /\ taskStep' = [taskStep EXCEPT ![t] = IF added.ok THEN "registered" ELSE "duplicate"]
     /\ Reject(~added.ok, routeTable)

\* the import of the module of task t resolves: the exports are checked,
\* and the route is registered unless the validator has to be loaded first
ResolveImport(t) ==
  /\ taskStep[t] = "importing"
  /\ LET entry == importedEntry(TaskEntry(directories, t), t[2].exports, <<"/">>)
     IN IF entry.kind = "fatal"
        THEN /\ taskStep' = [taskStep EXCEPT ![t] = "rejected"]
             /\ Reject(TRUE, routeTable)
             /\ UNCHANGED routeTable
        ELSE IF t[2].custom
        THEN /\ taskStep' = [taskStep EXCEPT ![t] = "awaitingAjv"]
             /\ UNCHANGED <<routeTable, startup, reportedTable>>
        ELSE RegisterFileRoute(t)
  /\ UNCHANGED <<directories, dirStep, loaded, numberOfValidRouteDirs,
                 routeVars, fileVars, checkVars, pathVars, walkVars, serveVars>>

\* the import of the validator resolves and the route is registered
ResolveAjv(t) ==
  /\ taskStep[t] = "awaitingAjv"
  /\ RegisterFileRoute(t)
  /\ UNCHANGED <<directories, dirStep, loaded, numberOfValidRouteDirs,
                 routeVars, fileVars, checkVars, pathVars, walkVars, serveVars>>

\* nothing is pending any more
Settled ==
  /\ \A i \in DOMAIN dirStep : dirStep[i] \in {"scanned", "skipped"} \/
        (directories[i].parent # 0 /\ dirStep[directories[i].parent] = "skipped")
  /\ \A t \in DOMAIN taskStep : taskStep[t] \notin {"importing", "awaitingAjv"}

\* mutant: the plugin resolves when the last task ends, whatever was
\* rejected before
CompleteStartup_IgnoresFailure ==
  /\ startup \in {"running", "failed"}
  /\ Settled
  /\ startup' = IF numberOfValidRouteDirs = 0 THEN "failed" ELSE "ready"
  /\ reportedTable' = IF numberOfValidRouteDirs = 0 THEN routeTable ELSE reportedTable
  /\ UNCHANGED <<directories, dirStep, taskStep, loaded, routeTable, numberOfValidRouteDirs,
                 routeVars, fileVars, checkVars, pathVars, walkVars, serveVars>>

\* the Promise.all over the roots resolves
CompleteStartup ==
  /\ startup = "running"
  /\ Settled
  /\ startup' = IF numberOfValidRouteDirs = 0 THEN "failed" ELSE "ready"
  /\ reportedTable' = IF numberOfValidRouteDirs = 0 THEN routeTable ELSE reportedTable
  /\ UNCHANGED <<directories, dirStep, taskStep, loaded, routeTable, numberOfValidRouteDirs,
                 routeVars, fileVars, checkVars, pathVars, walkVars, serveVars>>

StartupNext ==
  \/ \E i \in DOMAIN dirStep : StatRoot(i)
  \/ \E i \in DOMAIN dirStep : ScanDirectory(i)
  \/ \E t \in DOMAIN taskStep : ResolveImport(t)
  \/ \E t \in DOMAIN taskStep : ResolveAjv(t)
  \/ CompleteStartup

StartupSpec == StartupInit /\ [][StartupNext]_vars

----------------------------------------------------------------------------
(* The parameter consistency check *)

\* longest compiled URL pattern, in segments
MaxUrlSegments == 3

ParamNames == {"id", "oid"}
PropertyNames == {"id", "oid", "name"}

\* a segment of a compiled URL pattern: a literal, ':name' or '*'
UrlSegments == {<<"files">>, <<"*">>} \cup {<<":", name>> : name \in ParamNames}

Urls == UNION {[1..n -> UrlSegments] : n \in 0..MaxUrlSegments}

isWildcardRoute(url) == \E k \in 1..Len(url) : url[k] = <<"*">>

\* the names written ':name' in the pattern; none for a wildcard route
extractRouteParams(url) ==
  IF isWildcardRoute(url) THEN {}
  ELSE {url[k][2] : k \in {j \in 1..Len(url) : url[j][1] = ":"}}

\* the property names of the params schema, of either provenance
extractSchemaParams(in) == IF in.schemaType = "none" THEN {} ELSE in.properties

\* mutant: only the names declared by the schema are looked up in the path
validateParamsSchema_SchemaSideOnly(in) ==
  LET routeParams == extractRouteParams(in.url)
      schemaParams == extractSchemaParams(in)
  IN IF isWildcardRoute(in.url) \/ in.schemaType = "none" THEN CheckOutcome("skipped", {}, {})
     ELSE IF schemaParams \subseteq routeParams THEN CheckOutcome("passed", {}, {})
     ELSE CheckOutcome("failed", schemaParams \ routeParams, {})

validateParamsSchema(in) ==
  LET routeParams == extractRouteParams(in.url)
      schemaParams == extractSchemaParams(in)
  IN IF isWildcardRoute(in.url) \/ in.schemaType = "none" THEN CheckOutcome("skipped", {}, {})
     ELSE IF routeParams = schemaParams THEN CheckOutcome("passed", {}, {})
     ELSE CheckOutcome("failed", schemaParams \ routeParams, routeParams \ schemaParams)

CheckInputs ==
  {CheckInput(url, "none", {}) : url \in Urls}
  \cup {CheckInput(url, type, properties) :
          url \in Urls, type \in {"zod", "json"}, properties \in SUBSET PropertyNames}

CheckInit ==
  /\ RouteIdle
  /\ FileIdle
  /\ PathIdle
  /\ WalkIdle
  /\ StartupIdle
  /\ ServeIdle
  /\ checkInput \in CheckInputs
  /\ checkStep = "registering"
  /\ checkOutcome = CheckOutcome("none", {}, {})

\* the check runs while the route is being registered
CheckParams ==
  /\ checkStep = "registering"
  /\ checkOutcome' = validateParamsSchema(checkInput)
  /\ checkStep' = "checked"
  /\ UNCHANGED <<checkInput, routeVars, fileVars, pathVars, walkVars, startupVars, serveVars>>

\* startup goes on to the route table, or aborts
FinishStartup ==
  /\ checkStep = "checked"
  /\ checkStep' = IF checkOutcome.status = "failed" THEN "aborted" ELSE "registered"
  /\ UNCHANGED <<checkInput, checkOutcome, routeVars, fileVars, pathVars, walkVars, startupVars, serveVars>>

CheckNext == CheckParams \/ FinishStartup

CheckSpec == CheckInit /\ [][CheckNext]_vars

----------------------------------------------------------------------------
(* Properties of the route life cycle *)

\* position of a part in the order params, querystring, body, headers
Rank(p) ==
  CASE p = "params" -> 1 [] p = "querystring" -> 2 [] p = "body" -> 3 [] p = "headers" -> 4

\* the provenance the bundle records for a request part
Provenance(p) ==
  IF route.defined /\ route.hasSchemaTypesKey /\ p \in DOMAIN route.typeParts
  THEN route.typeParts[p] ELSE "none"

\* the arrived data of a part fails the description the author declared for
\* it (query strings are read as the booleans and numbers they spell)
DeclaredInvalid(p) ==
  LET d == moduleInput.parts[p]
  IN CASE d.kind = "zod" -> ~safeParse(d, arrived[p]).ok
       [] d.kind = "json" ->
            ~ajvValidate(d, IF p = "querystring" THEN coerceQueryValue(arrived[p])
                            ELSE arrived[p], "ajv").ok
       [] OTHER -> FALSE

InvalidParts == {p \in PartSet : DeclaredInvalid(p)}

EarliestInvalid == CHOOSE p \in InvalidParts : \A q \in InvalidParts : Rank(p) <= Rank(q)

EventsOf(p) == {i \in 1..Len(validationLog) : validationLog[i].part = p}

\* the preValidation hook has run for the current request
HookDone == routeOptions.preValidation /\ pc \in {"validation", "handler", "preSerialization", "done"}

Rejected == dispatched # NoReply

\* C2: a request with a part that fails its declared schema is answered
\* with status 400 and a body { error: "Bad Request: <part> - ..." }, also
\* on routes that declare Zod response schemas with response validation on.
C2_InvalidPartAnswered400 ==
  (routeOptions.preValidation /\ pc = "done" /\ InvalidParts # {}) =>
    /\ reply.status = 400
    /\ reply.payload.kind = "error"
    /\ reply.payload.part = EarliestInvalid

\* the Zod response schema the author registered for a status code, if any
ZodResponseDeclared(status) ==
  /\ moduleInput.wrapper = "defineRouteZod"
  /\ moduleInput.respPresent
  /\ status \in DOMAIN moduleInput.response
  /\ moduleInput.response[status].kind = "zod"

HasZodResponseInput ==
  /\ moduleInput.wrapper = "defineRouteZod"
  /\ moduleInput.respPresent
  /\ \E c \in DOMAIN moduleInput.response : moduleInput.response[c].kind = "zod"

\* C4: status and payload are left as produced when response validation is
\* disabled, or the route has no Zod response schema, or none is registered
\* for the actual status code; in the first two cases no hook is installed.
C4_ResponseValidatorFrame ==
  /\ (pc = "done" /\ produced # NoReply
        /\ (~zodResponseValidation \/ ~HasZodResponseInput
              \/ ~ZodResponseDeclared(produced.status)))
       => reply = produced
  /\ (stage = "serve" /\ (~zodResponseValidation \/ ~HasZodResponseInput))
       => ~routeOptions.preSerialization

C4_Witness ==
  /\ pc = "done"
  /\ handlerRan
  /\ ~zodResponseValidation
  /\ ZodResponseDeclared(produced.status)
  /\ ~safeParsePayload(moduleInput.response[produced.status], produced.payload).ok
  /\ reply = produced

\* the description the validator of a provenance works from
SchemaFor(p) == IF Provenance(p) = "zod" THEN moduleInput.parts[p] ELSE route.parts[p]

ValidatorFor(p) == IF Provenance(p) = "zod" THEN "zod" ELSE "ajv"

NoProvenance ==
  /\ \A p \in PartSet : Provenance(p) = "none"
  /\ ~(route.hasSchemaTypesKey /\ DOMAIN route.typeResponse # {})

\* C7: the dispatcher neither modifies nor rejects on a part without
\* recorded provenance, and a route whose bundle records no provenance for
\* any part gets no dispatcher hook and keeps the host's validators.
C7_UnrecordedPartsUntouched ==
  /\ HookDone =>
       \A p \in PartSet :
         Provenance(p) = "none" =>
           /\ req[p] = arrived[p]
           /\ EventsOf(p) = {}
           /\ Rejected => dispatched.payload.part # p
           /\ handlerRan => handlerSaw[p] = arrived[p]
  /\ (stage = "serve" /\ NoProvenance) =>
       ~routeOptions.preValidation /\ routeOptions.validatorCompiler = "default"

\* the bundle has no provenance map entry: no request part and no response key
EmptySchemaTypes ==
  ~(route.hasSchemaTypesKey /\ KeyCount(route.typeParts, route.typeRespPresent) > 0)

\* C7 as amended: the second half holds for a bundle that has no zod schema
\* and whose provenance map has no key (no request part and no response map)
C7_UnrecordedPartsUntouched_Amended ==
  /\ HookDone =>
       \A p \in PartSet :
         Provenance(p) = "none" =>
           /\ req[p] = arrived[p]
           /\ EventsOf(p) = {}
           /\ Rejected => dispatched.payload.part # p
           /\ handlerRan => handlerSaw[p] = arrived[p]
  /\ (stage = "serve" /\ NoProvenance /\ EmptySchemaTypes) =>
       ~routeOptions.preValidation /\ routeOptions.validatorCompiler = "default"

C7_Witness ==
  /\ HookDone
  /\ handlerRan
  /\ Provenance("querystring") = "none"
  /\ Provenance("body") = "zod"
  /\ handlerSaw["querystring"] = arrived["querystring"]
  /\ handlerSaw["body"] # arrived["body"]

----------------------------------------------------------------------------
(* Properties of the schema normalizer *)

Normalized == stage = "register" /\ moduleInput.wrapper = "defineRouteZod"

InputCodes == IF moduleInput.respPresent THEN DOMAIN moduleInput.response ELSE {}

\* the bundle records part p with one provenance, and keeps the original
\* description exactly when that provenance is zod
RecordedOnce(p) ==
  /\ p \in DOMAIN route.parts
  /\ p \in DOMAIN route.typeParts
  /\ route.typeParts[p] \in {"zod", "json"}
  /\ (p \in DOMAIN route.zodParts) <=> (route.typeParts[p] = "zod")
  /\ p \in DOMAIN route.zodParts => route.zodParts[p] = moduleInput.parts[p]

\* the bundle has nothing for part p
NotRecorded(p) ==
  /\ p \notin DOMAIN route.parts
  /\ p \notin DOMAIN route.typeParts
  /\ p \notin DOMAIN route.zodParts

ResponseRecorded ==
  /\ DOMAIN route.response = InputCodes
  /\ DOMAIN route.typeResponse = InputCodes
  /\ DOMAIN route.zodResponse \subseteq InputCodes
  /\ \A c \in InputCodes :
       /\ route.typeResponse[c] \in {"zod", "json"}
       /\ (c \in DOMAIN route.zodResponse) <=> (route.typeResponse[c] = "zod")
       /\ c \in DOMAIN route.zodResponse => route.zodResponse[c] = moduleInput.response[c]

\* C5 as stated: in every bundle returned by defineRouteZod, each request
\* part and each response status code present in the input has exactly one
\* recorded provenance in {zod, json}, the original description is retained
\* if and only if the provenance is zod, and a part absent from the input
\* has no provenance, no retained original and no canonical description.
C5_OneProvenancePerPart ==
  Normalized =>
    /\ \A p \in PartSet :
         IF moduleInput.parts[p].kind # "absent" THEN RecordedOnce(p) ELSE NotRecorded(p)
    /\ ResponseRecorded

\* C5 amended: the same, for each request part whose description in the
\* input is a schema object; a request part given as the JSON Schema `false`
\* is recorded like an absent part.
C5_OneProvenancePerPart_Amended ==
  Normalized =>
    /\ \A p \in PartSet :
         IF Truthy(moduleInput.parts[p]) THEN RecordedOnce(p) ELSE NotRecorded(p)
    /\ ResponseRecorded

\* a bundle with a zod part, a json part, a `false` part, an absent part and
\* a response map of both provenances
C5_Witness ==
  /\ Normalized
  /\ moduleInput.parts["params"].kind = "zod"
  /\ moduleInput.parts["querystring"].kind = "json"
  /\ moduleInput.parts["body"].kind = "false"
  /\ moduleInput.parts["headers"].kind = "absent"
  /\ moduleInput.respPresent
  /\ DOMAIN moduleInput.response = {200, 400}
  /\ moduleInput.response[200].kind = "zod"
  /\ moduleInput.response[400].kind = "json"
  /\ route.typeParts = [p \in {"params", "querystring"} |->
                          IF p = "params" THEN "zod" ELSE "json"]
  /\ DOMAIN route.zodParts = {"params"}
  /\ DOMAIN route.zodResponse = {200}

----------------------------------------------------------------------------
(* Properties of the parameter consistency check *)

Checked == checkStep # "registering"

----------------------------------------------------------------------------
(* Properties of the directory walk *)

\* the dot-separated tokens of a name, the escape token not being a separator
DotTokens(name) == split(replaceEscapes(name), ".", << >>)

Walked == fileStep = "done" /\ shouldExcludeFile(fileName) = 0

IsSupportedMethod(token) == Len(token) = 1 /\ token[1] \in validMethods

Fatal == fileStep = "done" /\ fileOutcome = "fatal"

\* C9 as stated: the token immediately before the extension of a route file
\* name must be one of delete, get, head, patch, post, put in lowercase; any
\* other token (upper-case, another word, or empty) makes startup fail and
\* no route is registered for the file.
C9_MethodTokenClosedSet ==
  Walked =>
    LET tokens == DotTokens(fileName)
        n == Len(tokens)
    IN (n >= 2 /\ tokens[n] \in extensions /\ ~IsSupportedMethod(tokens[n - 1])) => Fatal

\* C10 as stated: a file whose last dot-separated token is not an accepted
\* extension is skipped without error and without a route, whatever its
\* other tokens are; a name with fewer than 2 dot-separated tokens is fatal.
C10_UnknownExtensionSkipped ==
  Walked =>
    LET tokens == DotTokens(fileName)
        n == Len(tokens)
    IN /\ n < 2 => Fatal
       /\ (n >= 2 /\ tokens[n] \notin extensions) =>
            (fileStep = "done" /\ fileOutcome = "skipped")

----------------------------------------------------------------------------
(* Properties of route path compilation *)

\* the calls made with the caller's list (the first call is the other one)
MainCalls == {k \in 2..Len(results) : results[k].passed = segmentList}

\* a segment that is a plain name: no sigil, no bracket, no dot
IsLiteral(segment) == segment # << >> /\ NoneOf(segment, {"$", "[", "]", ".", "&"})

\* every segment is a literal or the escape token, and each escape token
\* comes right after a literal
EscapesAfterLiterals(list) ==
  /\ \A k \in 1..Len(list) : IsLiteral(list[k]) \/ list[k] = EscapeToken
  /\ \A k \in 1..Len(list) : list[k] = EscapeToken => (k > 1 /\ IsLiteral(list[k - 1]))

\* the path such a list stands for: '/' between segments, except that an
\* escape token is a '.' joined to both of its neighbours
RECURSIVE PathWithDots(_, _)
PathWithDots(list, k) ==
  IF k > Len(list) THEN << >>
  ELSE (IF list[k] = EscapeToken THEN <<".">>
        ELSE IF k > 1 /\ list[k - 1] # EscapeToken THEN <<"/">> \o list[k]
        ELSE list[k])
       \o PathWithDots(list, k + 1)

ExampleName == <<"api", ".", "v1", "[", ".", "]", ".", "0", ".", "get", ".", "ts">>
ExampleSegments == << <<"api">>, <<"v1">>, EscapeToken, <<"0">> >>
ChainSegments == << <<"v1">>, EscapeToken, <<"0">>, EscapeToken, <<"1">> >>

\* the two examples: the file name and the chain of two escapes
ExamplesCompile ==
  /\ parseFileName(ExampleName, extensions).routeSegments = ExampleSegments
  /\ \A conv \in {"remix", "next"} :
       /\ convertRoutePath(ExampleSegments, conv, FreshRegExps).value
            = <<"api", "/", "v1", ".", "0">>
       /\ convertRoutePath(ChainSegments, conv, FreshRegExps).value = <<"v1", ".", "0", ".", "1">>

NamedParam(conv) == IF conv = "remix" THEN <<"$", "id">> ELSE <<"[", "id", "]">>

\* at position j the list has the convention's named parameter, the escape
\* token and a literal successor; every other segment is a literal
ParamBeforeEscape(list, conv, j) ==
  /\ j + 2 <= Len(list)
  /\ list[j] = NamedParam(conv)
  /\ list[j + 1] = EscapeToken
  /\ IsLiteral(list[j + 2])
  /\ \A k \in (1..Len(list)) \ {j, j + 1, j + 2} : IsLiteral(list[k])

\* the path of such a list: the three segments are the one component
\* ':id.successor'
PathWithParam(list, j) ==
  join([k \in 1..(Len(list) - 2) |->
          IF k < j THEN list[k]
          ELSE IF k = j THEN <<":", "id", ".">> \o list[j + 2]
          ELSE list[k + 2]], 1)

\* C12: under both conventions, when the predecessor of an escape token is
\* the convention's named parameter ($id under remix, [id] under next),
\* compilation succeeds and the parameter, the '.' and the successor are
\* one path component ':id.successor'.
C12_EscapeAfterParameter ==
  \A k \in MainCalls : \A j \in 1..Len(segmentList) :
    ParamBeforeEscape(segmentList, pathConvention, j) =>
      results[k].ok /\ results[k].value = PathWithParam(segmentList, j)

\* characters that are neither alphanumeric nor hyphen nor underscore
\* (every other atom of the model is a word of alphanumerics)
OtherChars == {"@", "[", "]", ".", "$", "&", ":", "*", "/"}

\* only alphanumerics, hyphen and underscore
IsRestricted(str) == NoneOf(str, OtherChars)

\* a segment that has to be in the restricted class under remix: not the
\* wildcard, not a '$' parameter, not the escape token
MustBeRestricted(segment) ==
  segment # << >> /\ segment[1] # "$" /\ segment # EscapeToken

\* the components of a compiled path
Components(path) == split(path, "/", << >>)

\* C14: under remix, a list with a segment that is neither '$' nor a '$'
\* parameter nor the escape token and that has a character other than
\* alphanumerics, hyphen and underscore does not compile, so no literal
\* component of a compiled path has such a character, dots aside.
C14_RemixLiteralsRestricted ==
  pathConvention = "remix" =>
    \A k \in MainCalls :
      /\ (\E j \in 1..Len(segmentList) :
            MustBeRestricted(segmentList[j]) /\ ~IsRestricted(segmentList[j]))
           => ~results[k].ok
      /\ results[k].ok =>
           \A c \in 1..Len(Components(results[k].value)) :
             LET component == Components(results[k].value)[c]
             IN \/ component = << >>
                \/ component[1] \in {":", "*"}
                \/ NoneOf(component, OtherChars \ {"."})

HasBracket(segment) == \E k \in 1..Len(segment) : segment[k] \in {"[", "]"}

\* C15: a list with a segment of the other convention does not compile:
\* under next a segment that begins with '$', under remix a segment with
\* '[' or ']' that is not the escape token.
C15_CrossConventionRejected ==
  \A k \in MainCalls :
    /\ (pathConvention = "next"
        /\ \E j \in 1..Len(segmentList) :
             segmentList[j] # << >> /\ segmentList[j][1] = "$")
         => ~results[k].ok
    /\ (pathConvention = "remix"
        /\ \E j \in 1..Len(segmentList) :
             HasBracket(segmentList[j]) /\ segmentList[j] # EscapeToken)
         => ~results[k].ok

\* segments fully wrapped in brackets: a named parameter, a spread, and
\* the empty pair
SpreadParam == <<"[", ".", ".", ".", "id", "]">>
EmptyPair == <<"[", "]">>

\* what a next segment that stands for itself compiles to
NextComponent(segment) ==
  IF segment = NamedParam("next") THEN <<":", "id">>
  ELSE IF segment = SpreadParam THEN <<"*">>
  ELSE segment

\* every segment is a literal, '[id]' or '[...id]'
WrappedOrLiteral(list) ==
  \A k \in 1..Len(list) : IsLiteral(list[k]) \/ list[k] \in {NamedParam("next"), SpreadParam}

\* C16: under next, '[id]' compiles to ':id' and '[...id]' to '*', a list
\* with the empty pair '[]' does not compile, and no compiled path has a
\* bracket: a segment with a bracket that is not fully wrapped, such as
\* '[id', is never emitted as a literal.
C16_NextBracketSegments ==
  pathConvention = "next" =>
    \A k \in MainCalls :
      /\ WrappedOrLiteral(segmentList) =>
           /\ results[k].ok
           /\ results[k].value
                = join([j \in 1..Len(segmentList) |-> NextComponent(segmentList[j])], 1)
      /\ (\E j \in 1..Len(segmentList) : segmentList[j] = EmptyPair) => ~results[k].ok
      /\ results[k].ok => ~HasBracket(results[k].value)

\* what the first call ever made with a list returns
FirstCall(list, conv) == convertRoutePath(list, conv, FreshRegExps)

----------------------------------------------------------------------------
(* Properties of the directory walk *)

\* the walk has come to its end for the file of the chain
WalkDone == walkStep = "done"

\* some default pattern matches the name
Matches(name) == \E k \in 1..Len(defaultExcludePatterns(name)) : defaultExcludePatterns(name)[k]

\* no exclusion pattern matches a directory of the chain or the file
NothingExcluded ==
  /\ \A k \in 1..Len(walkInput.dirs) : ~Matches(walkInput.dirs[k])
  /\ ~Matches(walkInput.file)

\* the route segments of the file: directory names, then the tokens of
\* the file name before the method
RouteSegments ==
  walkInput.dirs \o parseFileName(walkInput.file, extensions).routeSegments

\* the file name has a method token and an accepted extension
WellFormedName == parseFileName(walkInput.file, extensions).kind = "ok"

\* C13: when the first route segment of a file is the escape token, under
\* either convention the walk ends with an error before the module is
\* imported, and no route is registered for the file.
C13_LeadingEscapeFatal ==
  (WalkDone /\ NothingExcluded /\ WellFormedName
   /\ RouteSegments # << >> /\ RouteSegments[1] = EscapeToken)
    => /\ walkOutcome.kind = "fatal"
       /\ walkLog \cap {"imported", "registered"} = {}

\* the directory '[.]' holding users.get.ts, under next
C13_Witness ==
  /\ WalkDone
  /\ walkInput.convention = "next"
  /\ walkInput.dirs = <<EscapeToken>>
  /\ walkInput.file = <<"users", ".", "get", ".", "ts">>
  /\ walkOutcome.kind = "fatal"

\* the file of the chain has been registered
Registered == WalkDone /\ walkOutcome.kind = "registered"

\* two '/' in a row at position k
DoubleSlashAt(url, k) == k >= 1 /\ k < Len(url) /\ url[k] = "/" /\ url[k + 1] = "/"

\* C17: for every mount point that starts with '/', a registered URL
\* starts with exactly one '/', and where the mount point ends and the
\* route path begins there is exactly one '/'.
C17_UrlSlashes ==
  Registered =>
    /\ walkOutcome.url[1] = "/"
    /\ ~DoubleSlashAt(walkOutcome.url, 1)
    /\ walkInput.mount # <<"/">> => ~DoubleSlashAt(walkOutcome.url, Len(walkInput.mount))

\* a name without '.'
DotFree(name) == NoneOf(name, {"."})

\* the same route segments with only the first j of them as directories
\* and the names of the other directories in front of the file name
Layout(in, j) ==
  WalkInput(SubSeq(in.dirs, 1, j),
            DottedName(SubSeq(in.dirs, j + 1, Len(in.dirs)) \o <<in.file>>, 1),
            in.exports, in.mount, in.convention)

\* what registerRoutes makes of a chain in which nothing is excluded
Registration(in) ==
  LET entry == fileEntry(DirAt(in.dirs, Len(in.dirs)), in.file, in.convention)
  IN IF entry.kind = "importing" THEN importedEntry(entry, in.exports, in.mount) ELSE entry

\* C19: when the directory names are free of dots, neither they nor the
\* file name are excluded, and the file name has a method token and an
\* accepted extension, the file ends as it would with any number of its
\* directories written as leading tokens of the file name: the same
\* method and the same URL are registered, or both layouts fail.
C19_SplitIndependent ==
  (WalkDone /\ NothingExcluded /\ WellFormedName
   /\ \A k \in 1..Len(walkInput.dirs) : DotFree(walkInput.dirs[k]))
    => \A j \in 0..Len(walkInput.dirs) : walkOutcome = Registration(Layout(walkInput, j))

\* api/users/$id.get.ts registers what api.users.$id.get.ts registers
C19_Witness ==
  /\ Registered
  /\ walkInput.dirs = << <<"api">>, <<"users">> >>
  /\ walkInput.file = <<"$", "id", ".", "get", ".", "ts">>
  /\ walkInput.mount = <<"/">>
  /\ walkOutcome.method = <<"get">>
  /\ walkOutcome.url = <<"/", "api", "/", "users", "/", ":", "id">>
  /\ Layout(walkInput, 0).file
       = <<"api", ".", "users", ".", "$", "id", ".", "get", ".", "ts">>
  /\ Registration(Layout(walkInput, 0)) = walkOutcome

\* C20: an entry is excluded exactly when a pattern matches its own name,
\* a directory of the chain or the file; then nothing below it is parsed,
\* imported or registered, whatever the file name and the module are, and
\* the walk does not fail.
C20_ExcludedEntriesSkipped ==
  WalkDone =>
    /\ walkOutcome.kind = "excluded" <=> ~NothingExcluded
    /\ ~NothingExcluded => walkLog = {}

\* the excluded directory '_tmp' holds api.ts, a name without a method,
\* whose module has no handler function
C20_Witness ==
  /\ WalkDone
  /\ walkInput.dirs = << <<"_", "tmp">> >>
  /\ walkInput.file = <<"api", ".", "ts">>
  /\ walkInput.exports = "handlerNotFunction"
  /\ walkOutcome.kind = "excluded"
  /\ walkLog = {}
  /\ Registration(walkInput).kind = "fatal"

\* no pattern matches a directory of the chain
NoDirectoryExcluded == \A k \in 1..Len(walkInput.dirs) : ~Matches(walkInput.dirs[k])

\* the name ends in '.test.' or '.spec.' and an accepted extension
TestOrSpecFile(name) ==
  \E marker \in {"test", "spec"}, ext \in extensions : EndsWith(name, <<".", marker, ".">> \o ext)

\* C21: with the default patterns and extensions, a file whose name ends
\* in .test.<ext> or .spec.<ext> for an accepted extension is skipped: the
\* walk does not fail on it and registers no route for it.
C21_TestFilesSkipped ==
  (WalkDone /\ NoDirectoryExcluded /\ TestOrSpecFile(walkInput.file))
    => /\ walkOutcome.kind \in {"excluded", "skipped"}
       /\ walkLog = {}

----------------------------------------------------------------------------
(* Properties of the querystring branch of the dispatcher *)

\* the route has the dispatcher and its querystring part has provenance
\* json, declared with the given type
JsonQuery(shape) ==
  /\ routeOptions.preValidation
  /\ Provenance("querystring") = "json"
  /\ route.parts["querystring"].shape = shape

\* the querystring is the first part of the request that fails
QueryFailsFirst == InvalidParts # {} /\ EarliestInvalid = "querystring"

\* C25: on a route whose querystring has provenance json and type number,
\* the string "5" is coerced before validation, the request is accepted
\* and the handler receives the number 5; a string that is not a number is
\* answered with a 400 whose error names querystring.
C25_QueryCoercedThenValidated ==
  (pc = "done" /\ JsonQuery("number")) =>
    /\ (arrived["querystring"].v = "5" /\ InvalidParts = {})
         => handlerRan /\ handlerSaw["querystring"].t = "num"
                       /\ handlerSaw["querystring"].v = "5"
    /\ (arrived["querystring"].v = "abc" /\ QueryFailsFirst)
         => /\ ~handlerRan
            /\ reply.status = 400
            /\ reply.payload.kind = "error"
            /\ reply.payload.part = "querystring"

\* C30: on a route whose querystring has provenance json and type string,
\* the value the handler receives is the string that arrived, whatever it
\* spells: "true", "5", "007" or "abc".
C30_StringQueryUnchanged ==
  (pc = "done" /\ JsonQuery("string") /\ handlerRan) =>
    /\ handlerSaw["querystring"].t = "str"
    /\ handlerSaw["querystring"].v = arrived["querystring"].v

----------------------------------------------------------------------------
(* Properties of normalizing a plain JSON Schema bundle *)

\* defineRouteZod has returned, once or twice
NormalizedOnceOrTwice ==
  moduleInput.wrapper = "defineRouteZod" /\ stage \in {"register", "normalizedAgain"}

\* no description of the input is a Zod schema
AllPlainJson ==
  /\ \A p \in PartSet : ~isZodSchema(moduleInput.parts[p])
  /\ \A c \in InputCodes : ~isZodSchema(moduleInput.response[c])

\* part p is in the bundle as the author wrote it, with provenance json
\* and no retained original
KeptAsJson(p) ==
  /\ p \in DOMAIN route.parts /\ route.parts[p] = moduleInput.parts[p]
  /\ p \in DOMAIN route.typeParts /\ route.typeParts[p] = "json"
  /\ p \notin DOMAIN route.zodParts

\* the response map is in the bundle as the author wrote it
ResponseKeptAsJson ==
  /\ DOMAIN route.response = InputCodes
  /\ \A c \in InputCodes :
       route.response[c] = moduleInput.response[c] /\ route.typeResponse[c] = "json"
  /\ DOMAIN route.zodResponse = {}

\* C26 as stated: for a bundle without Zod schemas, every part of the
\* input is returned unchanged with provenance json and no retained
\* original, the other keys are passed through, and normalizing the
\* result again gives the same descriptions and the same provenance map.
C26_PlainJsonFixedPoint ==
  (NormalizedOnceOrTwice /\ AllPlainJson) =>
    /\ \A p \in PartSet : moduleInput.parts[p].kind # "absent" => KeptAsJson(p)
    /\ ResponseKeptAsJson
    /\ ~route.hasZodSchemasKey
    /\ route.extra = moduleInput.extra
    /\ route = defineRouteZod(moduleInput)

\* C26 amended: the same for each part whose description is a schema
\* object; a part given as the JSON Schema `false` is dropped like an
\* absent part, by the first normalization already.
C26_PlainJsonFixedPoint_Amended ==
  (NormalizedOnceOrTwice /\ AllPlainJson) =>
    /\ \A p \in PartSet : IF Truthy(moduleInput.parts[p]) THEN KeptAsJson(p) ELSE NotRecorded(p)
    /\ ResponseKeptAsJson
    /\ ~route.hasZodSchemasKey
    /\ route.extra = moduleInput.extra
    /\ route = defineRouteZod(moduleInput)

\* a bundle of two JSON Schema parts, a response map and a tags key,
\* normalized twice
C26_Witness ==
  /\ stage = "normalizedAgain"
  /\ AllPlainJson
  /\ moduleInput.parts["params"].kind = "json"
  /\ moduleInput.parts["body"].kind = "json"
  /\ moduleInput.extra = "tags"
  /\ InputCodes = {200}
  /\ route.typeParts = [p \in {"params", "body"} |-> "json"]
  /\ route.extra = "tags"

----------------------------------------------------------------------------
(* Properties of route-table construction over the configured roots *)

\* the configured roots of the tree
ConfiguredRoots == {i \in DOMAIN directories : directories[i].parent = 0}

\* C23: every configured root must be a relative path that resolves to an
\* existing directory: when one root is absolute, missing or not a
\* directory, startup does not succeed, whatever the other roots are
C23_InvalidRootFailsStartup ==
  startup = "ready" =>
    \A i \in ConfiguredRoots :
      ~directories[i].absolute /\ directories[i].kind = "directory"

\* the checks registerRoutes makes on a name before it loads the module:
\* no directory of the chain and not the file is excluded, the extension
\* is accepted, the method token is a method, and the segments compile
PassesNameChecks ==
  [chain \in Chains, name \in {e.name : e \in RouteFiles} |->
     LET parsed == parseFileName(name, extensions)
     IN /\ \A k \in 1..Len(chain) : ~Matches(chain[k])
        /\ ~Matches(name)
        /\ parsed.kind = "ok"
        /\ toHttpMethod(parsed.method)
        /\ convertRoutePath(chain \o parsed.routeSegments, "remix", FreshRegExps).ok]

\* the steps of a task that follow the resolution of its import
AfterImport == {"rejected", "awaitingAjv", "registered", "duplicate"}

\* C29: the module of a file is imported only when its name is not
\* excluded, has an accepted extension, a valid method token and segments
\* that compile; the export checks come after the import and before the
\* registration: a file past its import was imported, and every
\* registered route comes from an imported module whose exports passed
C29_ImportAfterNameChecks ==
  /\ \A t \in loaded : PassesNameChecks[DirChain(directories, t[1]), t[2].name]
  /\ \A t \in DOMAIN taskStep :
       /\ taskStep[t] \in AfterImport \cup {"importing"} => t \in loaded
       /\ taskStep[t] \in {"excluded", "skipped", "fatal", "unlisted"} => t \notin loaded
       /\ taskStep[t] = "rejected" => \A r \in routeTable : r.file # t
  /\ \A r \in routeTable : r.file \in loaded /\ r.file[2].exports = "handler"

\* one file registered, one rejected after its import, and one whose name
\* failed before any import
C29_Witness ==
  \E t, u, v \in DOMAIN taskStep :
    /\ taskStep[t] = "registered" /\ (\E r \in routeTable : r.file = t)
    /\ taskStep[u] = "rejected" /\ u \in loaded
    /\ taskStep[v] = "fatal" /\ v \notin loaded

\* the directory names of the trees that a default pattern matches
ExcludedNames == {name \in UNION {{chain[k] : k \in 1..Len(chain)} : chain \in Chains} : Matches(name)}

\* the directories registerRoutes lists: configured roots that are
\* directories, and their subdirectories that no pattern excludes
ListedDirs ==
  {i \in DOMAIN directories :
     IF directories[i].parent = 0 THEN directories[i].kind = "directory"
     ELSE directories[i].name \notin ExcludedNames}

\* the files of the listed directories that are not excluded and have an
\* accepted extension
IsRouteFile ==
  [name \in {e.name : e \in RouteFiles} |->
     ~Matches(name) /\ parseFileName(name, extensions).kind # "null"]

RouteFileTasks == {t \in DOMAIN taskStep : t[1] \in ListedDirs /\ IsRouteFile[t[2].name]}

\* the file fails file-name parsing, method validation, path compilation
\* or the validation of its exports
FailsValidation(t) ==
  \/ ~PassesNameChecks[DirChain(directories, t[1]), t[2].name]
  \/ t[2].exports # "handler"

\* C22: when a file that is not excluded and has an accepted extension
\* fails validation, construction does not succeed; and when it succeeds,
\* the route table has exactly one entry for every such file of every
\* listed directory, and no other entry
C22_FailFastAndComplete ==
  /\ (\E t \in RouteFileTasks : FailsValidation(t)) => startup # "ready"
  /\ startup = "ready" =>
       /\ \A t \in RouteFileTasks : Cardinality({r \in routeTable : r.file = t}) = 1
       /\ \A r \in routeTable : r.file \in RouteFileTasks

\* a started server with two routes beside a skipped and an excluded file
C22_Witness ==
  /\ startup = "ready"
  /\ Cardinality(routeTable) >= 2
  /\ \E t, u \in DOMAIN taskStep : taskStep[t] = "excluded" /\ taskStep[u] = "skipped"

\* startup failed after a file with a valid name exported no handler function
C22_FailureWitness ==
  /\ startup = "failed"
  /\ \E t \in RouteFileTasks : taskStep[t] = "rejected"

\* the tasks of the listed directories whose name passes the checks
ImportedTasks(tree) ==
  {t \in Tasks(tree) :
     /\ IF tree[t[1]].parent = 0 THEN tree[t[1]].kind = "directory"
        ELSE tree[t[1]].name \notin ExcludedNames
     /\ PassesNameChecks[DirChain(tree, t[1]), t[2].name]}

\* the route a file stands for: method and URL from its directory and
\* name, handler and schema from its module
RouteOf(tree, t) ==
  LET parsed == parseFileName(t[2].name, extensions)
      path == convertRoutePath(DirChain(tree, t[1]) \o parsed.routeSegments, "remix", FreshRegExps)
  IN Route(parsed.method, buildUrl(path.value, <<"/">>), t)

\* what the tree decides, whatever the order of completion: startup fails
\* when no root is a directory, when a route file fails validation, or
\* when two files stand for the same method and URL
TreeFails(tree) ==
  \/ \A i \in DOMAIN tree : tree[i].parent = 0 => tree[i].kind # "directory"
  \/ \E t \in Tasks(tree) :
       /\ IF tree[t[1]].parent = 0 THEN tree[t[1]].kind = "directory"
          ELSE tree[t[1]].name \notin ExcludedNames
       /\ IsRouteFile[t[2].name]
       /\ ~PassesNameChecks[DirChain(tree, t[1]), t[2].name] \/ t[2].exports # "handler"
  \/ \E t, u \in ImportedTasks(tree) :
       /\ t # u
       /\ RouteOf(tree, t).method = RouteOf(tree, u).method
       /\ RouteOf(tree, t).url = RouteOf(tree, u).url

\* C24: the outcome of startup is a function of the directory tree, not
\* of the order in which files, subdirectories and roots complete: in
\* every interleaving a successful startup has the routes of the tree's
\* files as its table, and a tree fails in every interleaving or in none
C24_OrderIndependent ==
  /\ startup = "ready" =>
       /\ ~TreeFails(directories)
       /\ routeTable = {RouteOf(directories, t) : t \in ImportedTasks(directories)}
  /\ startup = "failed" => TreeFails(directories)

\* a started server whose two routes come from different directories, one
\* of them registered after the validator was loaded
C24_Witness ==
  /\ startup = "ready"
  /\ \E r, q \in routeTable : r.file[1] # q.file[1] /\ r.file[2].custom

\* C28 as stated: once construction has failed, the routes registered when
\* the failure was reported are the final set
C28_NoRouteAfterFailure == startup = "failed" => routeTable = reportedTable

\* C28, amended: once construction has failed it stays failed, and the
\* tasks still running only add to the routes that were registered when
\* the failure was reported
C28_FailureIsFinal ==
  [][startup = "failed" =>
       /\ startup' = "failed"
       /\ reportedTable' = reportedTable
       /\ routeTable \subseteq routeTable']_vars

\* after the failure was reported, a sibling's import resolved and its
\* route was added
C28_Witness ==
  /\ startup = "failed"
  /\ \E r \in routeTable : r \notin reportedTable

----------------------------------------------------------------------------
(* Properties of requests in flight on one route *)

\* what becomes of a request that is processed with no other request in
\* flight, given the reply its handler sends when it is reached
Alone(request, sent) ==
  LET pv == IF routeOptions.preValidation THEN preValidation(route, routeOptions, request)
            ELSE [rejected |-> FALSE, reply |-> NoReply, req |-> request, log |-> << >>]
      hv == IF routeOptions.validatorCompiler = "noop"
            THEN [rejected |-> FALSE, part |-> "none", req |-> pv.req, log |-> << >>]
            ELSE hostValidate(1, routeOptions.schema.parts, pv.req, << >>)
      out(r) == IF routeOptions.preSerialization
                THEN zodValidationHook(route, r.status, r.payload) ELSE r
  IN IF pv.rejected
     THEN [req |-> pv.req, errors |-> errorsRead(pv, request, [p \in PartSet |-> NoErrors]),
           reply |-> out(pv.reply)]
     ELSE IF hv.rejected
     THEN [req |-> hv.req, errors |-> NoErrors,
           reply |-> Reply(400, Payload("hostError", hv.part, "host", "raw"))]
     ELSE [req |-> hv.req, errors |-> NoErrors, reply |-> out(sent)]

\* the bundle and the route options are those the registration produced
AsRegistered ==
  /\ route = (IF moduleInput.wrapper = "defineRouteZod" THEN defineRouteZod(moduleInput)
              ELSE defineRoute(moduleInput))
  /\ routeOptions = buildRouteOptions(route, zodResponseValidation)

\* C27: after startup no request changes the route's schema bundle or its
\* route options, and every request that was answered while another was
\* in flight has the data, the validation errors and the reply it would
\* have had alone
C27_RequestsIndependent ==
  stage = "serve" =>
    /\ AsRegistered
    /\ \A id \in RequestIds :
         inflight[id].pc = "done" =>
           LET alone == Alone(inflight[id].arrived, inflight[id].sent)
           IN /\ inflight[id].req = alone.req
              /\ inflight[id].errors = alone.errors
              /\ inflight[id].reply = alone.reply

\* the second request was rejected by the json branch for its querystring
\* after the first one had passed the hook and before it was answered
C27_Witness ==
  /\ inflight["second"].pc = "done"
  /\ inflight["second"].reply.status = 400
  /\ inflight["second"].errors # NoErrors
  /\ inflight["first"].pc \in {"handler", "preSerialization"}
  /\ inflight["first"].req["querystring"].t = "num"

====
